---- MODULE Spec2Model ----
(***************************************************************************)
(* Async-context escape analysis of eslint-plugin-async-event.             *)
(*                                                                         *)
(* The tracker (dist/utils/async-context.js) and the two front-ends built  *)
(* on it (no-async-event-properties, no-async-event-reference) are driven  *)
(* by ESLint's depth-first traversal of a syntax tree.  The tree is        *)
(* generated lazily: `todo` is the explicit stack of the traversal, whose  *)
(* head is the next node to be dispatched to the listeners.  Both          *)
(* front-ends create their own tracker, but a tracker changes only in the  *)
(* base listeners, which both front-ends run on every node, so the two     *)
(* trackers are equal at every node and are modelled by one set of         *)
(* variables.                                                              *)
(***************************************************************************)
EXTENDS Integers, Sequences, FiniteSets, TLC

VARIABLES
    functionsWithAwait,  \* WeakMap<Node, boolean>
    functionStack,       \* Node[]
    functionsInPromise,  \* WeakSet<Node>
    functionParams,      \* WeakMap<Node, Set<string>>
    nonEventVariables,   \* Set<string>
    eventAliases,        \* Map<string, string>
    parameterScopes,     \* Map<string, Node[]>
    parentFunctions,     \* WeakMap<Node, Node>
    reportedNodesProps,  \* WeakSet<MemberExpression> of no-async-event-properties
    reportedNodesRef,    \* WeakSet<Identifier> of no-async-event-reference
    reportedCalls,       \* WeakSet<CallExpression> of no-async-event-reference
    reports,             \* diagnostics passed to context.report, in order
    todo,                \* traversal stack: nodes still to be visited
    nextId,              \* next unused node identity
    steps,               \* number of freely chosen nodes generated so far
    grammar,             \* the shapes the syntax tree is generated from
    cur                  \* the node dispatched by the last step

tracker == <<functionsWithAwait, functionStack, functionsInPromise,
             functionParams, nonEventVariables, eventAliases,
             parameterScopes, parentFunctions>>
frontEnds == <<reportedNodesProps, reportedNodesRef, reportedCalls>>
vars == <<functionsWithAwait, functionStack, functionsInPromise,
          functionParams, nonEventVariables, eventAliases,
          parameterScopes, parentFunctions,
          reportedNodesProps, reportedNodesRef, reportedCalls,
          reports, todo, nextId, steps, grammar, cur>>

(***************************************************************************)
(* Bounds of the generated syntax trees.                                   *)
(***************************************************************************)
MaxSteps == 4
MaxAwaitSteps == 6
MaxAliasSteps == 5
MaxCallSteps == 4
MaxStoreSteps == 4
MaxPropsSteps == 4
MaxRunSteps == 5
MaxNameSteps == 3
MaxPatternSteps == 3
MaxExitSteps == 4
MaxDeferSteps == 3
MaxChainSteps == 4
MaxIterations == 8
MaxParamSteps == 4
MaxStaleSteps == 4

(***************************************************************************)
(* Names are sequences of characters, so that endsWith is computed.        *)
(***************************************************************************)
NoName == << >>
N_event == <<"e", "v", "e", "n", "t">>
N_saved == <<"s", "a", "v", "e", "d">>
N_e == <<"e">>
N_ev == <<"e", "v">>
N_Event == <<"E", "v", "e", "n", "t">>
N_then == <<"t", "h", "e", "n">>
N_catch == <<"c", "a", "t", "c", "h">>
N_finally == <<"f", "i", "n", "a", "l", "l", "y">>
N_currentTarget == <<"c", "u", "r", "r", "e", "n", "t", "T", "a", "r", "g", "e", "t">>
N_preventDefault == <<"p", "r", "e", "v", "e", "n", "t", "D", "e", "f", "a", "u", "l", "t">>
N_stopPropagation == <<"s", "t", "o", "p", "P", "r", "o", "p", "a", "g", "a", "t", "i", "o", "n">>
N_stopImmediatePropagation == <<"s", "t", "o", "p", "I", "m", "m", "e", "d", "i", "a", "t", "e",
                                "P", "r", "o", "p", "a", "g", "a", "t", "i", "o", "n">>
N_f == <<"f">>
N_data == <<"d", "a", "t", "a">>
N_t == <<"t">>
N_bubbles == <<"b", "u", "b", "b", "l", "e", "s">>
N_mouseEvent == <<"m", "o", "u", "s", "e", "E", "v", "e", "n", "t">>
N_events == <<"e", "v", "e", "n", "t", "s">>
N_Events == <<"E", "v", "e", "n", "t", "s">>
N_myevent == <<"m", "y", "e", "v", "e", "n", "t">>
N_E == <<"E">>
N_map == <<"m", "a", "p">>
N_evt == <<"e", "v", "t">>
N_myevt == <<"m", "y", "e", "v", "t">>
N__event == <<"_", "e", "v", "e", "n", "t">>
N__eventData == <<"_", "e", "v", "e", "n", "t", "D", "a", "t", "a">>

\* Event patterns; "*" is the wildcard.
P_anyEvent == <<"*", "E", "v", "e", "n", "t">>
P__eventAny == <<"_", "e", "v", "e", "n", "t", "*">>
P_anyEvAnyTAny == <<"*", "e", "v", "*", "t", "*">>
P_eAnyT == <<"e", "*", "t">>

(***************************************************************************)
(* JavaScript array and string helpers.                                    *)
(***************************************************************************)
\* Array.prototype.indexOf: 0-based position of the first occurrence, or -1.
RECURSIVE IndexFrom(_, _, _)
IndexFrom(arr, x, i) ==
    IF i > Len(arr) THEN -1
    ELSE IF arr[i] = x THEN i - 1
    ELSE IndexFrom(arr, x, i + 1)

IndexOf(arr, x) == IndexFrom(arr, x, 1)

Includes(arr, x) == \E i \in 1..Len(arr) : arr[i] = x

\* String.prototype.endsWith
EndsWith(name, suffix) ==
    /\ Len(name) >= Len(suffix)
    /\ SubSeq(name, Len(name) - Len(suffix) + 1, Len(name)) = suffix

\* Map.prototype.get on parameterScopes, with the `|| []` default.
ScopesOf(name) ==
    IF name \in DOMAIN parameterScopes THEN parameterScopes[name] ELSE << >>

\* functionParams.get(func) || new Set()
ParamsOf(func) ==
    IF func \in DOMAIN functionParams THEN functionParams[func] ELSE {}

\* Variant: the test functionsWithAwait.has(func) in place of .get(func).
HasAwait_Has(func) == func \in DOMAIN functionsWithAwait

\* functionsWithAwait.get(func), as a truth value (undefined is falsy).
HasAwait(func) ==
    func \in DOMAIN functionsWithAwait /\ functionsWithAwait[func]

\* m.set(k, v) on a Map or WeakMap modelled as a function.
MapSet(m, k, v) == [x \in DOMAIN m \cup {k} |-> IF x = k THEN v ELSE m[x]]

(***************************************************************************)
(* The tracker's queries (createAsyncContextTracker).                      *)
(***************************************************************************)
\* Variant: the name a pattern binds is collected like a plain parameter.
ParamNames_AllBound(params) == {params[i].name : i \in 1..Len(params)}

\* collectParamNames: the names of the parameters that are plain identifiers.
\* A parameter is a record [type, name]; for a pattern, `name` is the name it
\* binds.
ParamNames(params) ==
    {params[i].name : i \in {j \in 1..Len(params) : params[j].type = "Identifier"}}

\* Variant: functionNode is pushed for the name a pattern binds as well.
RECURSIVE CollectScopes_AllBound(_, _, _)
CollectScopes_AllBound(params, functionNode, scopes) ==
    IF params = << >> THEN scopes
    ELSE LET param == Head(params)
             old == IF param.name \in DOMAIN scopes THEN scopes[param.name] ELSE << >>
         IN CollectScopes_AllBound(Tail(params), functionNode,
                                   MapSet(scopes, param.name, Append(old, functionNode)))

\* collectParamNames: its effect on parameterScopes, one push of functionNode
\* for every identifier parameter, in order.
RECURSIVE CollectScopes(_, _, _)
CollectScopes(params, functionNode, scopes) ==
    IF params = << >> THEN scopes
    ELSE LET param == Head(params)
             old == IF param.name \in DOMAIN scopes THEN scopes[param.name] ELSE << >>
             next == IF param.type = "Identifier"
                       THEN MapSet(scopes, param.name, Append(old, functionNode))
                       ELSE scopes
         IN CollectScopes(Tail(params), functionNode, next)

\* A pattern matches the whole name; each "*" stands for any substring, the
\* empty one included, and every other character for itself.
RECURSIVE PatternMatches(_, _)
PatternMatches(pattern, name) ==
    IF pattern = << >> THEN name = << >>
    ELSE IF Head(pattern) = "*"
      THEN \E k \in 0..Len(name) :
              PatternMatches(Tail(pattern), SubSeq(name, k + 1, Len(name)))
      ELSE /\ name # << >>
           /\ Head(name) = Head(pattern)
           /\ PatternMatches(Tail(pattern), Tail(name))

\* Variant: setEventDetectionConfig is called for an empty list too.
eventPatterns_Unguarded ==
    IF "eventPatterns" \in DOMAIN grammar
      THEN [set |-> TRUE, patterns |-> grammar.eventPatterns]
      ELSE [set |-> FALSE, patterns |-> << >>]

\* The patterns create(context) hands to setEventDetectionConfig: those of
\* options.eventPatterns, when the option is given and has a pattern.
eventPatterns ==
    IF "eventPatterns" \in DOMAIN grammar /\ Len(grammar.eventPatterns) > 0
      THEN [set |-> TRUE, patterns |-> grammar.eventPatterns]
      ELSE [set |-> FALSE, patterns |-> << >>]

\* The tracker's test of a name against the patterns it was configured with.
matchesEventPatterns(patterns, name) ==
    \E i \in 1..Len(patterns) : PatternMatches(patterns[i], name)

\* Variant: name.includes('e') in place of name === 'e'.
isLikelyEventParam_Includes(name) ==
    \/ name = N_event
    \/ Includes(name, "e")
    \/ name = N_ev
    \/ EndsWith(name, N_Event)

\* Variant: the suffix is compared in either case.
isLikelyEventParam_AnyCase(name) ==
    \/ name = N_event
    \/ name = N_e
    \/ name = N_ev
    \/ EndsWith(name, N_Event)
    \/ EndsWith(name, N_event)

isLikelyEventParam(name) ==
    IF eventPatterns.set
      THEN matchesEventPatterns(eventPatterns.patterns, name)
      ELSE \/ name = N_event
           \/ name = N_e
           \/ name = N_ev
           \/ EndsWith(name, N_Event)

\* Variant: a name that is not tracked gets an empty entry when it is looked
\* up, as in collectParamNames.
ScopesAfterQuery_Inserts(name) ==
    IF name \in DOMAIN parameterScopes THEN parameterScopes
    ELSE MapSet(parameterScopes, name, << >>)

\* parameterScopes once isParameterInScope and isInAsyncContext have looked
\* `name` up: `parameterScopes.get(name) || []` reads the table and leaves a
\* missing entry missing.
ScopesAfterQuery(name) == parameterScopes

\* Variant: a name tracked as a parameter anywhere counts as in scope.
isParameterInScope_Tracked(name) == name \in DOMAIN parameterScopes

isParameterInScope(name) ==
    IF name \notin DOMAIN parameterScopes THEN FALSE
    ELSE LET paramScopes == ScopesOf(name)
         IN \/ \E i \in 1..Len(functionStack) : Includes(paramScopes, functionStack[i])
            \/ /\ Len(functionStack) > 0
               /\ \E j \in 1..Len(paramScopes) : Includes(functionStack, paramScopes[j])

\* The while loop of isDerivedFromEventParam, from `current` with `visited`.
RECURSIVE DerivedLoop(_, _)
DerivedLoop(current, visited) ==
    IF current \in DOMAIN eventAliases /\ current \notin visited
      THEN LET next == eventAliases[current]
           IN IF isLikelyEventParam(next) /\ isParameterInScope(next)
                THEN TRUE
                ELSE DerivedLoop(next, visited \cup {current})
      ELSE FALSE

\* Variant: the test of the loop applied to the name itself, not to the source
\* its alias record leads to.
isDerivedFromEventParam_Self(name) ==
    /\ name \in DOMAIN eventAliases
    /\ isLikelyEventParam(name)
    /\ isParameterInScope(name)

\* Variant: the loop without the `visited` set, cut off after MaxIterations
\* iterations.
RECURSIVE DerivedIterations_NoVisited(_, _)
DerivedIterations_NoVisited(current, visited) ==
    IF current \in DOMAIN eventAliases /\ Cardinality(visited) < MaxIterations
      THEN LET next == eventAliases[current]
           IN IF isLikelyEventParam(next) /\ isParameterInScope(next)
                THEN 1
                ELSE 1 + DerivedIterations_NoVisited(
                             next, visited \cup {<<Cardinality(visited), current>>})
      ELSE 0

\* The number of iterations of the while loop of isDerivedFromEventParam,
\* from `current` with `visited`.
RECURSIVE DerivedIterations(_, _)
DerivedIterations(current, visited) ==
    IF current \in DOMAIN eventAliases /\ current \notin visited
      THEN LET next == eventAliases[current]
           IN IF isLikelyEventParam(next) /\ isParameterInScope(next)
                THEN 1
                ELSE 1 + DerivedIterations(next, visited \cup {current})
      ELSE 0

\* Variant: only the first alias record is followed.
isDerivedFromEventParam_OneHop(name) ==
    /\ name \in DOMAIN eventAliases
    /\ isLikelyEventParam(eventAliases[name])
    /\ isParameterInScope(eventAliases[name])

isDerivedFromEventParam(name) == DerivedLoop(name, {})

\* The two early returns of isInAsyncContext.
PassesPreChecks(objectName) ==
    /\ isParameterInScope(objectName) \/ isDerivedFromEventParam(objectName)
    /\ isLikelyEventParam(objectName) \/ isDerivedFromEventParam(objectName)

\* Variant: the search runs over every function that has seen an await, on
\* the stack or not.
AsyncAwaitFunction_AnyEntered ==
    LET hits == {f \in DOMAIN functionsWithAwait : functionsWithAwait[f]}
    IN IF hits = {} THEN 0
       ELSE CHOOSE f \in hits : \A g \in hits : f <= g

\* The outermost function of the stack that has seen an await; 0 when none.
AsyncAwaitFunction ==
    LET hits == {i \in 1..Len(functionStack) : HasAwait(functionStack[i])}
    IN IF hits = {} THEN 0
       ELSE functionStack[CHOOSE i \in hits : \A j \in hits : i <= j]

\* The await branch of isInAsyncContext.
AwaitBranch(objectName) ==
    /\ AsyncAwaitFunction # 0
    /\ \/ \E k \in 1..Len(ScopesOf(objectName)) :
             LET paramFunc == ScopesOf(objectName)[k]
             IN \/ paramFunc = AsyncAwaitFunction
                \/ IndexOf(functionStack, paramFunc)
                     < IndexOf(functionStack, AsyncAwaitFunction)
       \/ isDerivedFromEventParam(objectName)

inPromiseChain == \E i \in 1..Len(functionStack) : functionStack[i] \in functionsInPromise

\* Variant: the parameters of every function of the stack are looked at, not
\* only those of the promise-chain callbacks.
isDefinedInCurrentFunction_AnyScope(objectName) ==
    \E i \in 1..Len(functionStack) : objectName \in ParamsOf(functionStack[i])

isDefinedInCurrentFunction(objectName) ==
    \E i \in 1..Len(functionStack) :
        /\ functionStack[i] \in functionsInPromise
        /\ objectName \in ParamsOf(functionStack[i])

\* The promise-chain branch of isInAsyncContext.
PromiseBranch(objectName) ==
    /\ inPromiseChain
    /\ ~isDefinedInCurrentFunction(objectName)
    /\ Len(ScopesOf(objectName)) > 0 \/ isDerivedFromEventParam(objectName)

\* isInAsyncContext's return value; it calls context.report exactly once, just
\* before returning true, and never when it returns false.
isInAsyncContext(objectName) ==
    /\ PassesPreChecks(objectName)
    /\ AwaitBranch(objectName) \/ PromiseBranch(objectName)

(***************************************************************************)
(* Syntax-tree nodes.  A node carries its identity and, as in ESLint, the  *)
(* link to its parent: the parent's type and identity, the node's role in  *)
(* the parent and, for a call's child, arguments.indexOf(node).            *)
(***************************************************************************)
Node(id, type, ptype, pid, role, index) ==
    [id |-> id, type |-> type, ptype |-> ptype, pid |-> pid, role |-> role,
     index |-> index]

Program == Node(0, "Program", "None", 0, "root", -1)

FunctionTypes == {"FunctionDeclaration", "FunctionExpression", "ArrowFunctionExpression"}

\* Entries of the traversal stack.
\*   Body   statement list of function `node` (of the Program when node.id = 0)
\*   Expr   an expression not generated yet
\*   Id     an Identifier node `name`
\*   Member a MemberExpression node obj.prop (obj an Identifier iff objType says so)
\*   Fn     a function expression, an argument or the callee of a call
Item(t, node, name, prop, objType, computed, async) ==
    [t |-> t, node |-> node, name |-> name, prop |-> prop, objType |-> objType,
     computed |-> computed, async |-> async]

BodyItem(node, async) == Item("Body", node, NoName, NoName, "None", FALSE, async)
ExprItem == Item("Expr", Program, NoName, NoName, "None", FALSE, FALSE)
IdItem(node, name) == Item("Id", node, name, NoName, "None", FALSE, FALSE)
MemberItem(node, objType, objName, prop, computed) ==
    Item("Member", node, objName, prop, objType, computed, FALSE)
FnItem(node) == Item("Fn", node, NoName, NoName, "None", FALSE, FALSE)

\* What the last step dispatched: the node, the name it is about (declared
\* name, identifier or member object), its property, and `site`, the node
\* the step ran a front-end check on (Program when it ran none).
\* `init` is the type of the initializer of a declarator, "None" elsewhere;
\* `declared` keeps the <<name, initializer type>> pairs of the declarators
\* dispatched so far, and `aliased` the <<name, initializer name>> pairs of
\* those with an identifier initializer, in the order of the traversal.
Visit(kind, node, name, prop, site) ==
    [kind |-> kind, node |-> node, name |-> name, prop |-> prop, site |-> site,
     init |-> "None", declared |-> cur.declared, aliased |-> cur.aliased]

DeclVisit(node, name, initType, initName) ==
    [kind |-> "VariableDeclarator", node |-> node, name |-> name, prop |-> initName,
     site |-> Program, init |-> initType,
     declared |-> cur.declared \cup {<<name, initType>>},
     aliased |-> IF initType = "Identifier"
                   THEN Append(cur.aliased, <<name, initName>>)
                   ELSE cur.aliased]

Param(name) == [type |-> "Identifier", name |-> name]

(***************************************************************************)
(* The shapes the generated trees are built from.                          *)
(***************************************************************************)
\* async () => .., async (event) => .., async (saved) => .., (event) => ..
\* A plain function differs from an async one without await only in having no
\* functionsWithAwait entry.
FunctionShapes ==
    {[async |-> TRUE, params |-> << >>],
     [async |-> TRUE, params |-> <<Param(N_event)>>],
     [async |-> TRUE, params |-> <<Param(N_saved)>>],
     [async |-> FALSE, params |-> <<Param(N_event)>>]}

\* name = init
DeclShapes ==
    {[name |-> N_saved, initType |-> "Identifier", initName |-> N_event],
     [name |-> N_saved, initType |-> "Identifier", initName |-> N_saved],
     [name |-> N_event, initType |-> "ObjectExpression", initName |-> NoName],
     [name |-> N_saved, initType |-> "CallExpression", initName |-> NoName],
     [name |-> N_event, initType |-> "NewExpression", initName |-> NoName]}

Callee(type, name, prop) == [type |-> type, name |-> name, prop |-> prop]
Arg(type, name) == [type |-> type, name |-> name]

\* callee(args): p().then(() => ..), f(event), event.preventDefault()
CallShapes ==
    {[callee |-> Callee("MemberExpression", NoName, N_then),
      args |-> <<Arg("ArrowFunctionExpression", NoName)>>],
     [callee |-> Callee("Identifier", N_f, NoName),
      args |-> <<Arg("Identifier", N_event)>>],
     [callee |-> Callee("MemberExpression", N_event, N_preventDefault),
      args |-> << >>]}

\* obj.prop and obj[prop]
MemberShapes ==
    {[objType |-> "Identifier", objName |-> N_event, prop |-> N_currentTarget,
      computed |-> FALSE],
     [objType |-> "Identifier", objName |-> N_saved, prop |-> N_currentTarget,
      computed |-> FALSE]}

IdentifierNames == {N_event}

\* The trees of Spec: every shape, up to MaxSteps freely chosen nodes.
FullGrammar ==
    [functions |-> FunctionShapes, declarations |-> DeclShapes, calls |-> CallShapes,
     members |-> MemberShapes, identifiers |-> IdentifierNames, maxSteps |-> MaxSteps]

\* The trees of SpecAwait: functions, awaits and member accesses only, deep
\* enough for awaits on two levels of nesting with a third function inside.
AwaitGrammar ==
    [functions |-> {[async |-> TRUE, params |-> << >>],
                    [async |-> TRUE, params |-> <<Param(N_event)>>]},
     declarations |-> {},
     calls |-> {},
     members |-> {[objType |-> "Identifier", objName |-> N_event,
                   prop |-> N_currentTarget, computed |-> FALSE]},
     identifiers |-> {},
     maxSteps |-> MaxAwaitSteps]

\* The trees of SpecAlias: one handler, declarations, awaits and member
\* accesses, deep enough for two declarations of a name before its use.
AliasGrammar ==
    [functions |-> {[async |-> TRUE, params |-> <<Param(N_event)>>]},
     declarations |-> {[name |-> N_saved, initType |-> "Identifier", initName |-> N_event],
                       [name |-> N_saved, initType |-> "NewExpression", initName |-> NoName],
                       [name |-> N_event, initType |-> "ObjectExpression",
                        initName |-> NoName]},
     calls |-> {},
     members |-> {[objType |-> "Identifier", objName |-> N_event,
                   prop |-> N_currentTarget, computed |-> FALSE],
                  [objType |-> "Identifier", objName |-> N_saved,
                   prop |-> N_currentTarget, computed |-> FALSE]},
     identifiers |-> {},
     maxSteps |-> MaxAliasSteps]

\* The trees of SpecCalls: one handler, awaits and calls with two arguments,
\* f(event, event) and f(data, event).
CallsGrammar ==
    [functions |-> {[async |-> TRUE, params |-> <<Param(N_event)>>]},
     declarations |-> {},
     calls |-> {[callee |-> Callee("Identifier", N_f, NoName),
                 args |-> <<Arg("Identifier", N_event), Arg("Identifier", N_event)>>],
                [callee |-> Callee("Identifier", N_f, NoName),
                 args |-> <<Arg("Identifier", N_data), Arg("Identifier", N_event)>>]},
     members |-> {},
     identifiers |-> {},
     maxSteps |-> MaxCallSteps]

\* The trees of SpecStore: handlers, the declaration t = event.currentTarget,
\* awaits, promise chains and uses of t.
StoreGrammar ==
    [functions |-> {[async |-> TRUE, params |-> << >>],
                    [async |-> TRUE, params |-> <<Param(N_event)>>]},
     declarations |-> {[name |-> N_t, initType |-> "MemberExpression",
                        initName |-> N_event, initProp |-> N_currentTarget]},
     calls |-> {[callee |-> Callee("MemberExpression", NoName, N_then),
                 args |-> <<Arg("ArrowFunctionExpression", NoName)>>]},
     members |-> {[objType |-> "Identifier", objName |-> N_t,
                   prop |-> N_currentTarget, computed |-> FALSE]},
     identifiers |-> {N_t},
     maxSteps |-> MaxStoreSteps]

\* The rule options of SpecProps: none, or a `properties` array.
PropertyOptions ==
    {<< >>,
     [properties |-> {N_preventDefault, N_stopPropagation}],
     [properties |-> {N_bubbles}],
     [properties |-> {}]}

\* The trees of SpecProps: one handler, awaits and the accesses
\* event.currentTarget, event.preventDefault and event.bubbles.
PropsGrammar(options) ==
    options @@
    [functions |-> {[async |-> TRUE, params |-> <<Param(N_event)>>]},
     declarations |-> {},
     calls |-> {},
     members |-> {[objType |-> "Identifier", objName |-> N_event,
                   prop |-> N_currentTarget, computed |-> FALSE],
                  [objType |-> "Identifier", objName |-> N_event,
                   prop |-> N_preventDefault, computed |-> FALSE],
                  [objType |-> "Identifier", objName |-> N_event,
                   prop |-> N_bubbles, computed |-> FALSE]},
     identifiers |-> {},
     maxSteps |-> MaxPropsSteps]

\* Parameter names on both sides of the default event patterns.
ParameterNames ==
    {N_event, N_e, N_ev, N_Event, N_mouseEvent, N_events, N_Events, N_myevent, N_E}

\* The trees of SpecNames: one-parameter handlers over ParameterNames, awaits
\* and accesses to currentTarget on those names.
NamesGrammar ==
    [functions |-> {[async |-> TRUE, params |-> <<Param(n)>>] : n \in ParameterNames},
     declarations |-> {},
     calls |-> {},
     members |-> {[objType |-> "Identifier", objName |-> n,
                   prop |-> N_currentTarget, computed |-> FALSE] : n \in ParameterNames},
     identifiers |-> {},
     maxSteps |-> MaxNameSteps]

\* The rule options of SpecPatterns: none, or an `eventPatterns` array.
PatternOptions ==
    {<< >>,
     [eventPatterns |-> << >>],
     [eventPatterns |-> <<N_evt, P_anyEvent, P__eventAny>>],
     [eventPatterns |-> <<P_anyEvAnyTAny>>],
     [eventPatterns |-> <<P_eAnyT>>]}

PatternNames ==
    {N_event, N_e, N_evt, N_mouseEvent, N__event, N__eventData, N_myevt, N_events}

\* The trees of SpecPatterns: one-parameter handlers over PatternNames,
\* awaits and accesses to currentTarget on those names.
PatternsGrammar(options) ==
    options @@
    [functions |-> {[async |-> TRUE, params |-> <<Param(n)>>] : n \in PatternNames},
     declarations |-> {},
     calls |-> {},
     members |-> {[objType |-> "Identifier", objName |-> n,
                   prop |-> N_currentTarget, computed |-> FALSE] : n \in PatternNames},
     identifiers |-> {},
     maxSteps |-> MaxPatternSteps]

\* The trees of SpecDefer: plain functions, and calls that pass functions and
\* identifiers to .then, .catch, .finally, .map and f.
DeferGrammar ==
    [functions |-> {[async |-> FALSE, params |-> << >>],
                    [async |-> FALSE, params |-> <<Param(N_event)>>]},
     declarations |-> {},
     calls |-> {[callee |-> Callee("MemberExpression", NoName, N_then),
                 args |-> <<Arg("FunctionExpression", NoName),
                            Arg("ArrowFunctionExpression", NoName)>>],
                [callee |-> Callee("MemberExpression", NoName, N_catch),
                 args |-> <<Arg("ArrowFunctionExpression", NoName)>>],
                [callee |-> Callee("MemberExpression", NoName, N_finally),
                 args |-> <<Arg("FunctionExpression", NoName)>>],
                [callee |-> Callee("MemberExpression", NoName, N_then),
                 args |-> <<Arg("Identifier", N_f)>>],
                [callee |-> Callee("MemberExpression", NoName, N_map),
                 args |-> <<Arg("ArrowFunctionExpression", NoName)>>],
                [callee |-> Callee("Identifier", N_f, NoName),
                 args |-> <<Arg("ArrowFunctionExpression", NoName)>>]},
     members |-> {[objType |-> "Identifier", objName |-> N_event,
                   prop |-> N_currentTarget, computed |-> FALSE]},
     identifiers |-> {},
     maxSteps |-> MaxDeferSteps]

\* The trees of SpecChain: handlers with and without the parameter event,
\* and declarations that chain saved, t and data to event, close a cycle
\* between saved and t, alias saved to itself, and take data as a source.
ChainGrammar ==
    [functions |-> {[async |-> TRUE, params |-> << >>],
                    [async |-> TRUE, params |-> <<Param(N_event)>>]},
     declarations |-> {[name |-> N_saved, initType |-> "Identifier", initName |-> N_event],
                       [name |-> N_t, initType |-> "Identifier", initName |-> N_saved],
                       [name |-> N_data, initType |-> "Identifier", initName |-> N_t],
                       [name |-> N_saved, initType |-> "Identifier", initName |-> N_t],
                       [name |-> N_saved, initType |-> "Identifier", initName |-> N_saved],
                       [name |-> N_t, initType |-> "Identifier", initName |-> N_data]},
     calls |-> {},
     members |-> {[objType |-> "Identifier", objName |-> N_saved,
                   prop |-> N_currentTarget, computed |-> FALSE],
                  [objType |-> "Identifier", objName |-> N_data,
                   prop |-> N_currentTarget, computed |-> FALSE]},
     identifiers |-> {},
     maxSteps |-> MaxChainSteps]

\* The trees of SpecParams: handlers (event), ({event}), (e, ...event) and
\* (event = 0), awaits and accesses to currentTarget on event and e.
ParamsGrammar ==
    [functions |-> {[async |-> TRUE, params |-> <<Param(N_event)>>],
                    [async |-> TRUE,
                     params |-> <<[type |-> "ObjectPattern", name |-> N_event]>>],
                    [async |-> TRUE,
                     params |-> <<Param(N_e), [type |-> "RestElement", name |-> N_event]>>],
                    [async |-> TRUE,
                     params |-> <<[type |-> "AssignmentPattern", name |-> N_event]>>]},
     declarations |-> {},
     calls |-> {},
     members |-> {[objType |-> "Identifier", objName |-> N_event,
                   prop |-> N_currentTarget, computed |-> FALSE],
                  [objType |-> "Identifier", objName |-> N_e,
                   prop |-> N_currentTarget, computed |-> FALSE]},
     identifiers |-> {},
     maxSteps |-> MaxParamSteps]

\* The trees of SpecStale: handlers with and without the parameter event,
\* awaits, p().then(() => ..) and accesses to event.currentTarget.
StaleGrammar ==
    [functions |-> {[async |-> TRUE, params |-> << >>],
                    [async |-> TRUE, params |-> <<Param(N_event)>>]},
     declarations |-> {},
     calls |-> {[callee |-> Callee("MemberExpression", NoName, N_then),
                 args |-> <<Arg("ArrowFunctionExpression", NoName)>>]},
     members |-> {[objType |-> "Identifier", objName |-> N_event,
                   prop |-> N_currentTarget, computed |-> FALSE]},
     identifiers |-> {},
     maxSteps |-> MaxStaleSteps]

\* The trees of SpecExits: those of SpecAwait.
ExitsGrammar == [AwaitGrammar EXCEPT !.maxSteps = MaxExitSteps]

\* The trees of SpecRuns: those of SpecAlias, shared by consecutive runs.
RunsGrammar == [AliasGrammar EXCEPT !.maxSteps = MaxRunSteps]

\* Variant: isInAsyncContext without its `return true` statements, so that
\* every matching parameter scope and every branch reports.
ReportCalls_NoReturn(objectName) ==
    IF ~PassesPreChecks(objectName) THEN 0
    ELSE (IF AsyncAwaitFunction # 0
            THEN Cardinality({k \in 1..Len(ScopesOf(objectName)) :
                     LET paramFunc == ScopesOf(objectName)[k]
                     IN \/ paramFunc = AsyncAwaitFunction
                        \/ IndexOf(functionStack, paramFunc)
                             < IndexOf(functionStack, AsyncAwaitFunction)})
                 + (IF isDerivedFromEventParam(objectName) THEN 1 ELSE 0)
            ELSE 0)
         + (IF PromiseBranch(objectName) THEN 1 ELSE 0)

\* The number of context.report calls of one call of isInAsyncContext: each
\* report is followed by `return true`.
ReportCalls(objectName) ==
    IF ~PassesPreChecks(objectName) THEN 0
    ELSE IF AwaitBranch(objectName) THEN 1
    ELSE IF PromiseBranch(objectName) THEN 1
    ELSE 0

\* The diagnostics one call of isInAsyncContext emits.
Emitted(objectName, diagnostic) == [i \in 1..ReportCalls(objectName) |-> diagnostic]

(***************************************************************************)
(* no-async-event-properties                                               *)
(***************************************************************************)
DEFAULT_DISALLOWED_PROPS ==
    {N_preventDefault, N_stopPropagation, N_stopImmediatePropagation, N_currentTarget}

\* Variant: the configured properties added to the defaults.
disallowedProps_Merged ==
    IF "properties" \in DOMAIN grammar
      THEN grammar.properties \cup DEFAULT_DISALLOWED_PROPS
      ELSE DEFAULT_DISALLOWED_PROPS

\* options.properties || DEFAULT_DISALLOWED_PROPS; the options of the rule
\* are the `properties` field of `grammar`, absent when none are given.  An
\* array, also the empty one, is truthy.
disallowedProps ==
    IF "properties" \in DOMAIN grammar THEN grammar.properties
                                       ELSE DEFAULT_DISALLOWED_PROPS

\* The MemberExpression listener up to the call of isInAsyncContext:
\* isEventObject && objectName.
isEventObject(node, objType, objectName, prop, computed) ==
    /\ node.id \notin reportedNodesProps
    /\ prop \in disallowedProps
    /\ ~computed
    /\ objType = "Identifier"
    /\ isParameterInScope(objectName) \/ isDerivedFromEventParam(objectName)
    /\ isLikelyEventParam(objectName) \/ isDerivedFromEventParam(objectName)
    /\ objectName \notin nonEventVariables

\* The MemberExpression listener: TRUE iff it reports the node.
MemberReports(node, objType, objectName, prop, computed) ==
    /\ isEventObject(node, objType, objectName, prop, computed)
    /\ isInAsyncContext(objectName)

PropsDiagnostic(node, prop) ==
    [node |-> node, messageId |-> "noAsyncEventProperties", data |-> prop]

(***************************************************************************)
(* no-async-event-reference                                                *)
(***************************************************************************)
\* The early returns of the Identifier listener, below their variant without
\* the early return on nonEventVariables.
IdentifierSkipped_NoNonEvent(node, varName) ==
    \/ node.id \in reportedNodesRef
    \/ node.ptype = "VariableDeclarator" /\ node.role = "id"
    \/ node.ptype \in FunctionTypes
    \/ node.ptype = "MemberExpression" /\ node.role = "property"

IdentifierSkipped(node, varName) ==
    \/ node.id \in reportedNodesRef
    \/ node.ptype = "VariableDeclarator" /\ node.role = "id"
    \/ node.ptype \in FunctionTypes
    \/ node.ptype = "MemberExpression" /\ node.role = "property"
    \/ varName \in nonEventVariables

\* Variant: arguments.indexOf(node) >= 0 in place of > 0.
IdentifierReports_FromZero(node, varName) ==
    /\ ~IdentifierSkipped(node, varName)
    /\ isLikelyEventParam(varName) \/ isDerivedFromEventParam(varName)
    /\ IF node.ptype = "CallExpression"
         THEN /\ ~(node.index >= 0)
              /\ node.pid \notin reportedCalls
              /\ isInAsyncContext(varName)
         ELSE isInAsyncContext(varName)

\* The Identifier listener: TRUE iff it reports the node.
IdentifierReports(node, varName) ==
    /\ ~IdentifierSkipped(node, varName)
    /\ isLikelyEventParam(varName) \/ isDerivedFromEventParam(varName)
    /\ IF node.ptype = "CallExpression"
         THEN /\ ~(node.index > 0)
              /\ node.pid \notin reportedCalls
              /\ isInAsyncContext(varName)
         ELSE isInAsyncContext(varName)

\* Variant: the diagnostic is attached to the parent of the identifier.
RefDiagnostic_OnParent(node) ==
    [node |-> [node EXCEPT !.id = node.pid], messageId |-> "noAsyncEventReference",
     data |-> NoName]

RefDiagnostic(node) ==
    [node |-> node, messageId |-> "noAsyncEventReference", data |-> NoName]

(***************************************************************************)
(* The traversal.                                                          *)
(***************************************************************************)
InitWith(g) ==
    /\ grammar = g
    /\ functionsWithAwait = << >>
    /\ functionStack = << >>
    /\ functionsInPromise = {}
    /\ functionParams = << >>
    /\ nonEventVariables = {}
    /\ eventAliases = << >>
    /\ parameterScopes = << >>
    /\ parentFunctions = << >>
    /\ reportedNodesProps = {}
    /\ reportedNodesRef = {}
    /\ reportedCalls = {}
    /\ reports = << >>
    /\ todo = <<BodyItem(Program, TRUE)>>
    /\ nextId = 1
    /\ steps = 0
    /\ cur = [kind |-> "Program", node |-> Program, name |-> NoName, prop |-> NoName,
              site |-> Program, init |-> "None", declared |-> {},
              aliased |-> << >>]

Init == InitWith(FullGrammar)

head == Head(todo)

\* A new statement or expression can be generated here.
CanStart == steps < grammar.maxSteps /\ head.t \in {"Body", "Expr"}

\* The traversal stack once the head is consumed: a Body stays for the
\* statements that follow, an Expr is replaced by what it turns out to be.
Base == IF head.t = "Body" THEN todo ELSE Tail(todo)

\* The parent of a node generated at the head.
HereType == IF head.t = "Body" THEN "ExpressionStatement" ELSE "AwaitExpression"

\* The function body the head lies in.
EnclosingBody ==
    todo[CHOOSE i \in 1..Len(todo) :
            /\ todo[i].t = "Body"
            /\ \A j \in 1..(i - 1) : todo[j].t # "Body"]

Top == functionStack[Len(functionStack)]

\* The function listeners.  For an async function both the `[async=true]`
\* listener and the plain listener fire; the plain one does nothing then,
\* as it is guarded by !node.async.
\* Variant: the plain listener lacks the !node.async guard, so an async
\* function is pushed by both listeners.
EnterFunction_Unguarded(node, async, params) ==
    /\ parentFunctions' = IF Len(functionStack) > 0
                            THEN MapSet(parentFunctions, node.id, Top)
                            ELSE parentFunctions
    /\ functionStack' = IF async THEN Append(Append(functionStack, node.id), node.id)
                                 ELSE Append(functionStack, node.id)
    /\ functionsWithAwait' = IF async THEN MapSet(functionsWithAwait, node.id, FALSE)
                                      ELSE functionsWithAwait
    /\ parameterScopes' = CollectScopes(params, node.id, parameterScopes)
    /\ functionParams' = MapSet(functionParams, node.id, ParamNames(params))

EnterFunction(node, async, params) ==
    /\ parentFunctions' = IF Len(functionStack) > 0
                            THEN MapSet(parentFunctions, node.id, Top)
                            ELSE parentFunctions
    /\ functionStack' = Append(functionStack, node.id)
    /\ functionsWithAwait' = IF async THEN MapSet(functionsWithAwait, node.id, FALSE)
                                      ELSE functionsWithAwait
    /\ parameterScopes' = CollectScopes(params, node.id, parameterScopes)
    /\ functionParams' = MapSet(functionParams, node.id, ParamNames(params))

\* The parent of the identifier a parameter binds: the function itself for a
\* plain parameter, else the pattern ({name} is a Property of an
\* ObjectPattern, name = .. an AssignmentPattern, ...name a RestElement).
PatternParent(param) ==
    IF param.type = "Identifier" THEN "Function"
    ELSE IF param.type = "ObjectPattern" THEN "Property"
    ELSE param.type

\* The parameters of a function are visited before its body.
ParamItems(params, fnode, firstId) ==
    [i \in 1..Len(params) |->
        IF params[i].type = "Identifier"
          THEN IdItem(Node(firstId + i - 1, "Identifier", fnode.type, fnode.id,
                           "param", -1),
                      params[i].name)
          ELSE IdItem(Node(firstId + i - 1, "Identifier", PatternParent(params[i]),
                           fnode.id, "pattern", -1),
                      params[i].name)]

FunctionVisit(node, shape, rest) ==
    /\ EnterFunction(node, shape.async, shape.params)
    /\ todo' = ParamItems(shape.params, node, nextId + 1)
                 \o <<BodyItem(node, shape.async)>> \o rest
    /\ nextId' = nextId + 1 + Len(shape.params)
    /\ cur' = Visit("Function", node, NoName, NoName, Program)
    /\ UNCHANGED <<functionsInPromise, nonEventVariables, eventAliases,
                   reportedNodesProps, reportedNodesRef, reportedCalls, reports,
                   grammar>>

\* function h(..) {..} as a statement
VisitFunctionDeclaration ==
    /\ CanStart
    /\ head.t = "Body"
    /\ \E shape \in grammar.functions :
          FunctionVisit(Node(nextId, "FunctionDeclaration", "BlockStatement",
                             head.node.id, "statement", -1), shape, todo)
    /\ steps' = steps + 1

\* A function expression that is an argument of a call.
VisitFunctionExpression ==
    /\ head.t = "Fn"
    /\ \E shape \in grammar.functions : FunctionVisit(head.node, shape, Tail(todo))
    /\ UNCHANGED steps

\* Variant: the exit listener pops whatever is on top of the stack.
exitListener_PopsAny(stack, id) ==
    IF Len(stack) > 0 THEN SubSeq(stack, 1, Len(stack) - 1) ELSE stack

\* Variant: the exit listener pops down to the exited function when it lies
\* deeper in the stack.
exitListener_PopsThrough(stack, id) ==
    IF Includes(stack, id) THEN SubSeq(stack, 1, IndexOf(stack, id)) ELSE stack

\* 'FunctionDeclaration:exit' and its two siblings: the stack they leave.
exitListener(stack, id) ==
    IF Len(stack) > 0 /\ stack[Len(stack)] = id
      THEN SubSeq(stack, 1, Len(stack) - 1)
      ELSE stack

\* Variant: the await flag of a function is cleared when it is popped.
ExitFunction_ClearsFlag ==
    /\ head.t = "Body"
    /\ head.node.id # 0
    /\ functionStack' = IF Len(functionStack) > 0 /\ Top = head.node.id
                          THEN SubSeq(functionStack, 1, Len(functionStack) - 1)
                          ELSE functionStack
    /\ functionsWithAwait' = IF head.node.id \in DOMAIN functionsWithAwait
                               THEN MapSet(functionsWithAwait, head.node.id, FALSE)
                               ELSE functionsWithAwait
    /\ todo' = Tail(todo)
    /\ cur' = Visit("FunctionExit", head.node, NoName, NoName, Program)
    /\ UNCHANGED <<functionsInPromise, functionParams,
                   nonEventVariables, eventAliases, parameterScopes, parentFunctions,
                   frontEnds, reports, nextId, steps, grammar>>

\* The exit of the function whose body has been visited.
ExitFunction ==
    /\ head.t = "Body"
    /\ head.node.id # 0
    /\ functionStack' = exitListener(functionStack, head.node.id)
    /\ todo' = Tail(todo)
    /\ cur' = Visit("FunctionExit", head.node, NoName, NoName, Program)
    /\ UNCHANGED <<functionsWithAwait, functionsInPromise, functionParams,
                   nonEventVariables, eventAliases, parameterScopes, parentFunctions,
                   frontEnds, reports, nextId, steps, grammar>>

\* Variant: an await marks the async function entered last, on the stack or
\* not.
VisitAwait_MarksLastEntered ==
    /\ CanStart
    /\ EnclosingBody.async
    /\ functionsWithAwait' =
          IF DOMAIN functionsWithAwait # {}
            THEN MapSet(functionsWithAwait,
                        CHOOSE f \in DOMAIN functionsWithAwait :
                            \A g \in DOMAIN functionsWithAwait : g <= f,
                        TRUE)
            ELSE functionsWithAwait
    /\ todo' = <<ExprItem>> \o Base
    /\ nextId' = nextId + 1
    /\ steps' = steps + 1
    /\ cur' = Visit("AwaitExpression",
                    Node(nextId, "AwaitExpression", HereType, 0, "expr", -1),
                    NoName, NoName, Program)
    /\ UNCHANGED <<functionStack, functionsInPromise, functionParams,
                   nonEventVariables, eventAliases, parameterScopes, parentFunctions,
                   frontEnds, reports, grammar>>

\* Variant: an await marks every function on the stack.
VisitAwait_MarksStack ==
    /\ CanStart
    /\ EnclosingBody.async
    /\ functionsWithAwait' =
          [f \in DOMAIN functionsWithAwait \cup {functionStack[i] : i \in 1..Len(functionStack)}
              |-> IF Includes(functionStack, f) THEN TRUE ELSE functionsWithAwait[f]]
    /\ todo' = <<ExprItem>> \o Base
    /\ nextId' = nextId + 1
    /\ steps' = steps + 1
    /\ cur' = Visit("AwaitExpression",
                    Node(nextId, "AwaitExpression", HereType, 0, "expr", -1),
                    NoName, NoName, Program)
    /\ UNCHANGED <<functionStack, functionsInPromise, functionParams,
                   nonEventVariables, eventAliases, parameterScopes, parentFunctions,
                   frontEnds, reports, grammar>>

\* An exit listener called out of order: for a function that is not on top
\* of the stack (deeper in it, popped before, or never entered), or with
\* the stack empty.
ExitOutOfOrder ==
    /\ \E n \in DOMAIN functionParams \cup {nextId} :
          /\ IF Len(functionStack) = 0 THEN TRUE ELSE n # Top
          /\ functionStack' = exitListener(functionStack, n)
          /\ cur' = Visit("FunctionExit",
                          Node(n, "FunctionDeclaration", "BlockStatement", 0, "statement", -1),
                          NoName, NoName, Program)
    /\ UNCHANGED <<functionsWithAwait, functionsInPromise, functionParams,
                   nonEventVariables, eventAliases, parameterScopes, parentFunctions,
                   frontEnds, reports, todo, nextId, steps, grammar>>

\* A traversal that leaves the function on top of the stack without calling
\* its exit listener: nothing of the tracker runs.
ExitNotDelivered ==
    /\ head.t = "Body"
    /\ head.node.id # 0
    /\ IF Len(functionStack) = 0 THEN FALSE ELSE Top = head.node.id
    /\ todo' = Tail(todo)
    /\ cur' = Visit("ExitNotDelivered", head.node, NoName, NoName, Program)
    /\ UNCHANGED <<tracker, frontEnds, reports, nextId, steps, grammar>>

\* AwaitExpression; its operand follows.  An await is only legal directly in
\* an async function or at the top level of a module.
VisitAwait ==
    /\ CanStart
    /\ EnclosingBody.async
    /\ functionsWithAwait' = IF Len(functionStack) > 0
                               THEN MapSet(functionsWithAwait, Top, TRUE)
                               ELSE functionsWithAwait
    /\ todo' = <<ExprItem>> \o Base
    /\ nextId' = nextId + 1
    /\ steps' = steps + 1
    /\ cur' = Visit("AwaitExpression",
                    Node(nextId, "AwaitExpression", HereType, 0, "expr", -1),
                    NoName, NoName, Program)
    /\ UNCHANGED <<functionStack, functionsInPromise, functionParams,
                   nonEventVariables, eventAliases, parameterScopes, parentFunctions,
                   frontEnds, reports, grammar>>

\* An expression no listener is registered for (a literal, `this`, ..).
VisitLiteral ==
    /\ head.t = "Expr"
    /\ todo' = Tail(todo)
    /\ cur' = Visit("Literal", Program, NoName, NoName, Program)
    /\ UNCHANGED <<tracker, frontEnds, reports, nextId, steps, grammar>>

\* Variant: every initializer that is no identifier marks a non-event.
IsNonEventInit_NotIdentifier(initType) == initType # "Identifier"

\* The initializers that put the declared name into nonEventVariables.
IsNonEventInit(initType) ==
    initType \in {"ObjectExpression", "NewExpression", "CallExpression"}

\* Variant: only a parameter in scope is taken as the source of an alias.
RecordsAlias_ParameterOnly(sourceName) ==
    isLikelyEventParam(sourceName) /\ isParameterInScope(sourceName)

\* The condition under which `varName = sourceName` is recorded as an alias.
RecordsAlias(sourceName) ==
    \/ isLikelyEventParam(sourceName) /\ isParameterInScope(sourceName)
    \/ sourceName \in DOMAIN eventAliases

\* Variant: a declaration with another initializer drops the alias record
\* of the declared name.
AliasesAfter_ForgetsRedeclared(varName, initType, sourceName) ==
    IF initType = "Identifier"
      THEN (IF RecordsAlias(sourceName) THEN MapSet(eventAliases, varName, sourceName)
                                        ELSE eventAliases)
      ELSE [n \in DOMAIN eventAliases \ {varName} |-> eventAliases[n]]

\* eventAliases after the declarator `varName = init`: set for an identifier
\* initializer that is taken as a source, untouched otherwise.
AliasesAfter(varName, initType, sourceName) ==
    IF initType = "Identifier" /\ RecordsAlias(sourceName)
      THEN MapSet(eventAliases, varName, sourceName)
      ELSE eventAliases

\* VariableDeclarator: `name = init`.  The declared identifier and an
\* identifier or member initializer are visited next; the children of the
\* other initializers ({..}, new X(), f()) hold no identifier of interest.
VisitVariableDeclarator ==
    /\ CanStart
    /\ head.t = "Body"
    /\ \E shape \in grammar.declarations :
         LET d == Node(nextId, "VariableDeclarator", "VariableDeclaration", 0,
                       "declaration", -1)
             idNode == Node(nextId + 1, "Identifier", "VariableDeclarator", d.id, "id", -1)
             initNode == Node(nextId + 2, shape.initType, "VariableDeclarator", d.id,
                              "init", -1)
         IN /\ nonEventVariables' =
                 IF IsNonEventInit(shape.initType)
                   THEN nonEventVariables \cup {shape.name}
                   ELSE nonEventVariables
            /\ eventAliases' = AliasesAfter(shape.name, shape.initType, shape.initName)
            /\ todo' = <<IdItem(idNode, shape.name)>>
                         \o (IF shape.initType = "Identifier"
                               THEN <<IdItem(initNode, shape.initName)>>
                             ELSE IF shape.initType = "MemberExpression"
                               THEN <<MemberItem(initNode, "Identifier", shape.initName,
                                                 shape.initProp, FALSE)>>
                             ELSE << >>)
                         \o todo
            /\ cur' = DeclVisit(d, shape.name, shape.initType, shape.initName)
    /\ nextId' = nextId + 3
    /\ steps' = steps + 1
    /\ UNCHANGED <<functionsWithAwait, functionStack, functionsInPromise,
                   functionParams, parameterScopes, parentFunctions,
                   frontEnds, reports, grammar>>

\* The MemberExpression listener of no-async-event-properties on `node`.
MemberListener(node, objType, objectName, prop, computed) ==
    IF MemberReports(node, objType, objectName, prop, computed)
      THEN /\ reports' = reports \o Emitted(objectName, PropsDiagnostic(node, prop))
           /\ reportedNodesProps' = reportedNodesProps \cup {node.id}
      ELSE UNCHANGED <<reports, reportedNodesProps>>

\* Variant: only .then registers callbacks.
PROMISE_METHODS_ThenOnly == {N_then}

PROMISE_METHODS == {N_then, N_catch, N_finally}

\* CallExpression.  The base listener tags the function-valued arguments of
\* .then/.catch/.finally; no-async-event-properties then runs its
\* MemberExpression listener on a member callee (the tagged arguments are not
\* on the stack yet, so the listener reads the same state either side of the
\* tagging).  The callee and the arguments are visited next.
VisitCallExpression ==
    /\ CanStart
    /\ \E shape \in grammar.calls :
         LET c == Node(nextId, "CallExpression", HereType, 0, "expr", -1)
             callee == shape.callee
             calleeNode == Node(nextId + 1, callee.type, "CallExpression", c.id,
                                "callee", -1)
             argNode(i) == Node(nextId + 1 + i, shape.args[i].type, "CallExpression",
                                c.id, "arg", i - 1)
             objType == IF callee.name = NoName THEN "CallExpression" ELSE "Identifier"
             calleeItem == IF callee.type = "Identifier"
                             THEN IdItem(calleeNode, callee.name)
                             ELSE MemberItem(calleeNode, objType, callee.name,
                                             callee.prop, FALSE)
             argItems == [i \in 1..Len(shape.args) |->
                            IF shape.args[i].type = "Identifier"
                              THEN IdItem(argNode(i), shape.args[i].name)
                              ELSE FnItem(argNode(i))]
         IN /\ functionsInPromise' =
                 IF callee.type = "MemberExpression" /\ callee.prop \in PROMISE_METHODS
                   THEN functionsInPromise \cup
                          {argNode(i).id : i \in
                             {j \in 1..Len(shape.args) :
                                shape.args[j].type \in {"FunctionExpression",
                                                        "ArrowFunctionExpression"}}}
                   ELSE functionsInPromise
            /\ IF callee.type = "MemberExpression"
                 THEN /\ MemberListener(calleeNode, objType, callee.name, callee.prop,
                                        FALSE)
                      /\ parameterScopes' = ScopesAfterQuery(callee.name)
                 ELSE UNCHANGED <<reports, reportedNodesProps, parameterScopes>>
            /\ todo' = <<calleeItem>> \o argItems \o Base
            /\ nextId' = nextId + 2 + Len(shape.args)
            /\ cur' = Visit("CallExpression", c, callee.name, callee.prop,
                            IF callee.type = "MemberExpression" THEN calleeNode
                                                                ELSE Program)
    /\ steps' = steps + 1
    /\ UNCHANGED <<functionsWithAwait, functionStack, functionParams,
                   nonEventVariables, eventAliases, parentFunctions,
                   reportedNodesRef, reportedCalls, grammar>>

\* MemberExpression; its object (when an identifier) and its property are
\* visited next.
MemberVisit(node, objType, objectName, prop, computed, rest, firstId) ==
    LET objNode == Node(firstId, "Identifier", "MemberExpression", node.id, "object", -1)
        propNode == Node(firstId + 1, "Identifier", "MemberExpression", node.id,
                         "property", -1)
    IN /\ MemberListener(node, objType, objectName, prop, computed)
       /\ todo' = (IF objType = "Identifier" THEN <<IdItem(objNode, objectName)>>
                                              ELSE << >>)
                    \o <<IdItem(propNode, prop)>> \o rest
       /\ nextId' = firstId + 2
       /\ cur' = Visit("MemberExpression", node, objectName, prop, node)
       /\ parameterScopes' = ScopesAfterQuery(objectName)
       /\ UNCHANGED <<functionsWithAwait, functionStack, functionsInPromise,
                      functionParams, nonEventVariables, eventAliases, parentFunctions,
                      reportedNodesRef, reportedCalls, grammar>>

\* obj.prop as an expression of its own
VisitMemberExpression ==
    /\ CanStart
    /\ \E shape \in grammar.members :
          MemberVisit(Node(nextId, "MemberExpression", HereType, 0, "expr", -1),
                      shape.objType, shape.objName, shape.prop, shape.computed, Base,
                      nextId + 1)
    /\ steps' = steps + 1

\* The callee obj.prop of a call already visited, or the initializer
\* obj.prop of a declarator already visited.
VisitCalleeMember ==
    /\ head.t = "Member"
    /\ MemberVisit(head.node, head.objType, head.name, head.prop, head.computed,
                   Tail(todo), nextId)
    /\ UNCHANGED steps

\* The Identifier listener of no-async-event-reference on `node`.
IdentifierVisit(node, varName, rest) ==
    /\ IF IdentifierReports(node, varName)
         THEN /\ reports' = reports \o Emitted(varName, RefDiagnostic(node))
              /\ reportedNodesRef' = reportedNodesRef \cup {node.id}
              /\ reportedCalls' = IF node.ptype = "CallExpression"
                                    THEN reportedCalls \cup {node.pid}
                                    ELSE reportedCalls
         ELSE UNCHANGED <<reports, reportedNodesRef, reportedCalls>>
    /\ todo' = rest
    /\ cur' = Visit("Identifier", node, varName, NoName, node)
    /\ parameterScopes' = ScopesAfterQuery(varName)
    /\ UNCHANGED <<functionsWithAwait, functionStack, functionsInPromise,
                   functionParams, nonEventVariables, eventAliases, parentFunctions,
                   reportedNodesProps, grammar>>

\* A reference `name` as an expression of its own.
VisitIdentifier ==
    /\ CanStart
    /\ \E name \in grammar.identifiers :
          IdentifierVisit(Node(nextId, "Identifier", HereType, 0, "expr", -1), name, Base)
    /\ nextId' = nextId + 1
    /\ steps' = steps + 1

\* An identifier that is a child of a node already visited.
VisitChildIdentifier ==
    /\ head.t = "Id"
    /\ IdentifierVisit(head.node, head.name, Tail(todo))
    /\ UNCHANGED <<nextId, steps>>

Next ==
    \/ VisitFunctionDeclaration
    \/ VisitFunctionExpression
    \/ ExitFunction
    \/ VisitAwait
    \/ VisitLiteral
    \/ VisitVariableDeclarator
    \/ VisitCallExpression
    \/ VisitMemberExpression
    \/ VisitCalleeMember
    \/ VisitIdentifier
    \/ VisitChildIdentifier

Spec == Init /\ [][Next]_vars

\* Trees without calls, declarations and free-standing identifiers.
NextAwait ==
    \/ VisitFunctionDeclaration
    \/ ExitFunction
    \/ VisitAwait
    \/ VisitLiteral
    \/ VisitMemberExpression
    \/ VisitChildIdentifier

SpecAwait == InitWith(AwaitGrammar) /\ [][NextAwait]_vars

SpecNames == InitWith(NamesGrammar) /\ [][NextAwait]_vars

SpecParams == InitWith(ParamsGrammar) /\ [][NextAwait]_vars

\* create(context) with each of the eventPatterns options.
InitPatterns == \E options \in PatternOptions : InitWith(PatternsGrammar(options))

SpecPatterns == InitPatterns /\ [][NextAwait]_vars

\* Trees without declarators and free-standing identifiers.
NextDefer ==
    \/ VisitFunctionDeclaration
    \/ VisitFunctionExpression
    \/ ExitFunction
    \/ VisitAwait
    \/ VisitLiteral
    \/ VisitCallExpression
    \/ VisitMemberExpression
    \/ VisitCalleeMember
    \/ VisitChildIdentifier

SpecDefer == InitWith(DeferGrammar) /\ [][NextDefer]_vars

\* Traversals in which the exit of a function may not be delivered.
NextStale ==
    \/ NextDefer
    \/ ExitNotDelivered

SpecStale == InitWith(StaleGrammar) /\ [][NextStale]_vars

\* Traversals in which exit listeners are also called out of order.
NextExits ==
    \/ NextAwait
    \/ ExitOutOfOrder

SpecExits == InitWith(ExitsGrammar) /\ [][NextExits]_vars

\* Trees without calls and free-standing identifiers.
NextAlias ==
    \/ VisitFunctionDeclaration
    \/ ExitFunction
    \/ VisitAwait
    \/ VisitLiteral
    \/ VisitVariableDeclarator
    \/ VisitMemberExpression
    \/ VisitChildIdentifier

SpecAlias == InitWith(AliasGrammar) /\ [][NextAlias]_vars

SpecChain == InitWith(ChainGrammar) /\ [][NextAlias]_vars

SpecStore == InitWith(StoreGrammar) /\ [][Next]_vars

\* create(context) with each of the rule options.
InitProps == \E options \in PropertyOptions : InitWith(PropsGrammar(options))

SpecProps == InitProps /\ [][NextAwait]_vars

\* Variant: nonEventVariables is a table of the module, shared by all the
\* trackers.
createAsyncContextTracker_Shared ==
    [functionsWithAwait |-> << >>, functionStack |-> << >>,
     functionsInPromise |-> {}, functionParams |-> << >>,
     nonEventVariables |-> nonEventVariables, eventAliases |-> << >>,
     parameterScopes |-> << >>, parentFunctions |-> << >>]

\* The tables of a tracker just created: all of them are locals of
\* createAsyncContextTracker.
createAsyncContextTracker ==
    [functionsWithAwait |-> << >>, functionStack |-> << >>,
     functionsInPromise |-> {}, functionParams |-> << >>,
     nonEventVariables |-> {}, eventAliases |-> << >>,
     parameterScopes |-> << >>, parentFunctions |-> << >>]

\* create(context) of both rules for the next syntax tree, at any point of
\* the run before it: new trackers, new reportedNodes and reportedCalls, and
\* the diagnostics of the new run.
Create ==
    /\ cur.kind \notin {"Program", "Create"}
    /\ LET fresh == createAsyncContextTracker
       IN /\ functionsWithAwait' = fresh.functionsWithAwait
          /\ functionStack' = fresh.functionStack
          /\ functionsInPromise' = fresh.functionsInPromise
          /\ functionParams' = fresh.functionParams
          /\ nonEventVariables' = fresh.nonEventVariables
          /\ eventAliases' = fresh.eventAliases
          /\ parameterScopes' = fresh.parameterScopes
          /\ parentFunctions' = fresh.parentFunctions
    /\ reportedNodesProps' = {}
    /\ reportedNodesRef' = {}
    /\ reportedCalls' = {}
    /\ reports' = << >>
    /\ todo' = <<BodyItem(Program, TRUE)>>
    /\ nextId' = 1
    /\ cur' = [kind |-> "Create", node |-> Program, name |-> NoName, prop |-> NoName,
               site |-> Program, init |-> "None", declared |-> {},
              aliased |-> << >>]
    /\ UNCHANGED <<steps, grammar>>

\* Consecutive runs over the trees of SpecAlias.
NextRuns ==
    \/ NextAlias
    \/ Create

SpecRuns == InitWith(RunsGrammar) /\ [][NextRuns]_vars

\* Trees of functions, awaits and calls with identifier callees and arguments.
NextCalls ==
    \/ VisitFunctionDeclaration
    \/ ExitFunction
    \/ VisitAwait
    \/ VisitLiteral
    \/ VisitCallExpression
    \/ VisitChildIdentifier

SpecCalls == InitWith(CallsGrammar) /\ [][NextCalls]_vars

(***************************************************************************)
(* Vocabulary of the properties, read off the tracker's tables.            *)
(***************************************************************************)
Depth == Len(functionStack)
Scope(i) == functionStack[i]

\* An await has been visited directly in the i-th function of the stack.
hasSuspended(i) ==
    Scope(i) \in DOMAIN functionsWithAwait /\ functionsWithAwait[Scope(i)]

\* The i-th function of the stack is a callback of .then/.catch/.finally.
isDeferred(i) == Scope(i) \in functionsInPromise

\* The i-th function of the stack has the identifier parameter `name`.
Declares(i, name) ==
    Scope(i) \in DOMAIN functionParams /\ name \in functionParams[Scope(i)]

AnySuspended == \E i \in 1..Depth : hasSuspended(i)
AnyDeferred == \E i \in 1..Depth : isDeferred(i)
OnStackParam(name) == \E i \in 1..Depth : Declares(i, name)

\* The default event patterns: event, e, ev and *Event.
EventLike(name) == name \in {N_event, N_e, N_ev} \/ EndsWith(name, N_Event)

\* Following the alias records from `name` leads to an event-like parameter
\* of a function on the stack.
RECURSIVE ChainReaches(_, _)
ChainReaches(name, seen) ==
    /\ name \in DOMAIN eventAliases
    /\ name \notin seen
    /\ LET source == eventAliases[name]
       IN \/ EventLike(source) /\ OnStackParam(source)
          \/ ChainReaches(source, seen \cup {name})

AliasDerived(name) == ChainReaches(name, {})

\* Number of diagnostics emitted for the node `site`.
ReportCount(rs, site) == Cardinality({k \in 1..Len(rs) : rs[k].node.id = site.id})
Diagnostics(site) == ReportCount(reports, site)

\* The last step ran a front-end listener on the node cur.site.
Checked == cur.site # Program

\* The last step checked a member access name.prop with a disallowed,
\* non-computed property on an identifier (on its own visit, or as the callee
\* of the call just visited).
PropsUse ==
    /\ cur.kind \in {"MemberExpression", "CallExpression"}
    /\ cur.site # Program
    /\ cur.name # NoName
    /\ cur.prop \in disallowedProps

\* The last step checked a reference to the variable cur.name: an identifier
\* that is no declared name, parameter or property name, and that the
\* reference front-end does not pass over as a later argument of a call or as
\* a child of a call it has already reported.
RefUse ==
    /\ cur.kind = "Identifier"
    /\ cur.node.role \notin {"id", "param", "pattern", "property"}
    /\ cur.node.ptype = "CallExpression" =>
          /\ cur.node.index <= 0
          /\ cur.node.pid \in reportedCalls => cur.node.id \in reportedNodesRef

UseSite == PropsUse \/ RefUse

(***************************************************************************)
(* C1.  Once an await has been visited directly in the function S on top   *)
(* of the stack, every disallowed access p.x visited directly in S, with p *)
(* an event-like identifier parameter of S outside the Non-Event Set,      *)
(* produces exactly one diagnostic, which carries x; whatever encloses S,  *)
(* and also when p.x is the callee of a call.                              *)
(***************************************************************************)
C1_Case ==
    /\ PropsUse
    /\ Depth > 0
    /\ hasSuspended(Depth)
    /\ Declares(Depth, cur.name)
    /\ EventLike(cur.name)
    /\ cur.name \notin nonEventVariables

C1_AfterAwaitExactlyOne ==
    C1_Case =>
        /\ Diagnostics(cur.site) = 1
        /\ \A k \in 1..Len(reports) :
              reports[k].node.id = cur.site.id => reports[k].data = cur.prop

(***************************************************************************)
(* C2.  A node checked by a front-end while no function on the stack has   *)
(* seen an await and none is a promise-chain callback gets no diagnostic,  *)
(* and no later step of the traversal (an await, a .then call, ..) adds a  *)
(* diagnostic for a node checked before it.                                *)
(***************************************************************************)
C2_Case ==
    /\ Checked
    /\ ~AnySuspended
    /\ ~AnyDeferred

C2_NotReported == C2_Case => Diagnostics(cur.site) = 0

\* A step leaves the diagnostics of every node but the one it checks alone.
C2_NothingLater ==
    \A id \in 1..nextId :
        id # cur'.site.id =>
            ReportCount(reports', [id |-> id]) = ReportCount(reports, [id |-> id])

C2_BeforeAwaitNotReported == [][C2_NotReported' /\ C2_NothingLater]_vars

\* An event parameter of the async function on top of the stack is used
\* before any await or promise chain, where an await may still follow.
C2_Witness ==
    /\ C2_Case
    /\ UseSite
    /\ EventLike(cur.name)
    /\ Depth > 0
    /\ Declares(Depth, cur.name)
    /\ Scope(Depth) \in DOMAIN functionsWithAwait
    /\ cur.name \notin nonEventVariables
    /\ Diagnostics(cur.site) = 0

(***************************************************************************)
(* C3.  A use of an event-like name inside promise-chain callbacks, where  *)
(* a function on the stack that is not such a callback and encloses one    *)
(* declares the name and no callback on the stack declares it, gets        *)
(* exactly one diagnostic, however many callbacks are nested.  The amended *)
(* statement adds that the name is outside the Non-Event Set.              *)
(***************************************************************************)
C3_Case ==
    /\ UseSite
    /\ EventLike(cur.name)
    /\ \E i \in 1..Depth :
          /\ ~isDeferred(i)
          /\ Declares(i, cur.name)
          /\ \E j \in (i + 1)..Depth : isDeferred(j)
    /\ \A j \in 1..Depth : isDeferred(j) => ~Declares(j, cur.name)

C4_Case ==
    /\ UseSite
    /\ EventLike(cur.name)
    /\ Depth > 0
    /\ isDeferred(Depth)
    /\ Declares(Depth, cur.name)
    /\ ~hasSuspended(Depth)

C4_DeferredOwnParamNeverReported == C4_Case => Diagnostics(cur.site) = 0

(***************************************************************************)
(* C5.  The Non-Event Set only grows; a declarator with an object, new or  *)
(* call initializer puts its name into it; and a node checked for a name   *)
(* of the set gets no diagnostic from either front-end, whatever the stack *)
(* and the alias records hold.                                             *)
(***************************************************************************)
C5_Step ==
    /\ nonEventVariables \subseteq nonEventVariables'
    /\ (/\ cur'.kind = "VariableDeclarator"
        /\ cur'.init \in {"ObjectExpression", "NewExpression", "CallExpression"})
         => cur'.name \in nonEventVariables'
    /\ (cur'.site # Program /\ cur'.name \in nonEventVariables')
         => ReportCount(reports', cur'.site) = 0

C5_NonEventAlwaysWins == [][C5_Step]_vars

\* An alias of the event parameter, declared again with a new-expression, is
\* used after an await.
C5_Witness ==
    /\ UseSite
    /\ cur.name \in nonEventVariables
    /\ cur.name \in DOMAIN eventAliases
    /\ AliasDerived(cur.name)
    /\ AnySuspended
    /\ Diagnostics(cur.site) = 0

(***************************************************************************)
(* C6.  While the alias record of a name leads to an event-like parameter  *)
(* of a function S on the stack, a use of the name after an await directly *)
(* in S, or inside a promise-chain callback nested in S, gets exactly one  *)
(* diagnostic, provided the name is outside the Non-Event Set.  The        *)
(* amended statement adds that no promise-chain callback on the stack      *)
(* declares the name as a parameter.                                       *)
(***************************************************************************)
C6_Case ==
    /\ UseSite
    /\ cur.name \in DOMAIN eventAliases
    /\ LET source == eventAliases[cur.name]
       IN /\ EventLike(source)
          /\ \E i \in 1..Depth :
                /\ Declares(i, source)
                /\ hasSuspended(i) \/ \E j \in (i + 1)..Depth : isDeferred(j)
    /\ cur.name \notin nonEventVariables

C7_Case ==
    /\ Checked
    /\ ~OnStackParam(cur.name)
    /\ ~AliasDerived(cur.name)

C7_NonParameterNeverReported == C7_Case => Diagnostics(cur.site) = 0

\* `event`, a parameter only of a function already left, is used after an
\* await.
C7_Witness ==
    /\ C7_Case
    /\ UseSite
    /\ EventLike(cur.name)
    /\ cur.name \in DOMAIN parameterScopes
    /\ cur.name \notin nonEventVariables
    /\ Depth > 0
    /\ hasSuspended(Depth)
    /\ Diagnostics(cur.site) = 0

(***************************************************************************)
(* C8.  A node checked for a name that matches no event pattern and is not *)
(* alias-derived gets no diagnostic, also when the name is a parameter of  *)
(* a function that has seen an await or the node lies in a promise-chain   *)
(* callback.                                                               *)
(***************************************************************************)
C8_Case ==
    /\ Checked
    /\ cur.name # NoName
    /\ ~EventLike(cur.name)
    /\ ~AliasDerived(cur.name)

C8_NonEventLikeNeverReported == C8_Case => Diagnostics(cur.site) = 0

\* `saved`, a parameter of the function on top of the stack, is used after an
\* await in that function.
C8_Witness ==
    /\ C8_Case
    /\ UseSite
    /\ Depth > 0
    /\ Declares(Depth, cur.name)
    /\ hasSuspended(Depth)
    /\ cur.name \notin nonEventVariables
    /\ Diagnostics(cur.site) = 0

(***************************************************************************)
(* C9.  A use of an event-like name in a function nested in S, where S has *)
(* seen an await and declares the name, and the functions between S and    *)
(* the use are no promise-chain callbacks and do not declare the name,     *)
(* gets a diagnostic.                                                      *)
(***************************************************************************)
C9_Case ==
    /\ UseSite
    /\ EventLike(cur.name)
    /\ \E i \in 1..(Depth - 1) :
          /\ hasSuspended(i)
          /\ Declares(i, cur.name)
          /\ \A j \in (i + 1)..Depth : ~isDeferred(j) /\ ~Declares(j, cur.name)

C9_NestedUseReported == C9_Case => Diagnostics(cur.site) = 1

(***************************************************************************)
(* C10.  In no-async-event-reference, the first argument of a call, when   *)
(* it is an identifier outside the Non-Event Set that is event-like or     *)
(* alias-derived and the tracker finds it in async context, leaves exactly *)
(* one diagnostic on the call and its children together.                   *)
(***************************************************************************)
\* Number of diagnostics on the call `id` or on its callee and arguments.
CallSiteDiagnostics(id) ==
    Cardinality({k \in 1..Len(reports) :
                    \/ reports[k].node.id = id
                    \/ /\ reports[k].node.ptype = "CallExpression"
                       /\ reports[k].node.pid = id
                       /\ reports[k].messageId = "noAsyncEventReference"})

C10_Case ==
    /\ cur.kind = "Identifier"
    /\ cur.node.ptype = "CallExpression"
    /\ cur.node.role = "arg"
    /\ cur.node.index = 0
    /\ cur.name \notin nonEventVariables
    /\ EventLike(cur.name) \/ AliasDerived(cur.name)
    /\ isInAsyncContext(cur.name)

C10_CallReportedOnce == C10_Case => CallSiteDiagnostics(cur.node.pid) = 1

\* f(event) after an await: the diagnostic is on the argument.
C10_Witness ==
    /\ C10_Case
    /\ AnySuspended
    /\ Diagnostics(cur.node) = 1
    /\ CallSiteDiagnostics(cur.node.pid) = 1

(***************************************************************************)
(* C11.  No node carries two diagnostics, and every use-site node (a       *)
(* disallowed member access, or a reference that is no declared name,      *)
(* parameter or property name) of a name outside the Non-Event Set that is *)
(* event-like or alias-derived and that the tracker finds in async context *)
(* carries exactly one, whichever uses of the name were reported before.   *)
(***************************************************************************)
Matched(name) ==
    /\ name \notin nonEventVariables
    /\ EventLike(name) \/ AliasDerived(name)

C11_Case ==
    /\ \/ PropsUse
       \/ cur.kind = "Identifier" /\ cur.node.role \notin {"id", "param", "property"}
    /\ Matched(cur.name)
    /\ isInAsyncContext(cur.name)

C11_OneDiagnosticPerUseSite ==
    /\ \A k, l \in 1..Len(reports) :
          reports[k].node.id = reports[l].node.id => k = l
    /\ C11_Case => Diagnostics(cur.site) = 1

(***************************************************************************)
(* C12.  In no-async-event-reference, an identifier that is an argument of *)
(* a call, at any position, of a name outside the Non-Event Set that is    *)
(* event-like or alias-derived and that the tracker finds in async         *)
(* context, carries a diagnostic.                                          *)
(***************************************************************************)
C12_Case ==
    /\ cur.kind = "Identifier"
    /\ cur.node.ptype = "CallExpression"
    /\ cur.node.role = "arg"
    /\ Matched(cur.name)
    /\ isInAsyncContext(cur.name)

C12_EveryArgumentReported ==
    C12_Case => \E k \in 1..Len(reports) : reports[k].node = cur.node

(***************************************************************************)
(* C13.  A name declared only with member-access initializers (such as     *)
(* t = event.currentTarget) is in neither the alias records nor the        *)
(* Non-Event Set, and a node checked for such a name, when the name is not *)
(* an event-like parameter of a function on the stack, gets no diagnostic, *)
(* after an await and inside promise-chain callbacks too.                  *)
(***************************************************************************)
\* Every declarator of `name` dispatched so far has a member access as its
\* initializer, and there is one.
OnlyMemberInits(name) ==
    /\ <<name, "MemberExpression">> \in cur.declared
    /\ \A d \in cur.declared : d[1] = name => d[2] = "MemberExpression"

C13_Case ==
    /\ Checked
    /\ OnlyMemberInits(cur.name)
    /\ ~(EventLike(cur.name) /\ OnStackParam(cur.name))

C13_StoredPropertyInert ==
    /\ \A d \in cur.declared :
          OnlyMemberInits(d[1]) =>
              d[1] \notin DOMAIN eventAliases /\ d[1] \notin nonEventVariables
    /\ C13_Case => Diagnostics(cur.site) = 0

\* t, stored from the event parameter of a function still on the stack, is
\* used after an await.
C13_Witness ==
    /\ C13_Case
    /\ UseSite
    /\ OnStackParam(N_event)
    /\ AnySuspended
    /\ cur.name \notin DOMAIN eventAliases
    /\ cur.name \notin nonEventVariables
    /\ Diagnostics(cur.site) = 0

(***************************************************************************)
(* C14.  In no-async-event-properties a member access p.x gets a           *)
(* diagnostic only if x is in the effective list, which is the configured  *)
(* `properties` list when one is given and the four defaults otherwise;    *)
(* and an access to a property of the effective list on the event          *)
(* parameter of the only function on the stack, after an await in it, gets *)
(* exactly one.                                                            *)
(***************************************************************************)
EffectiveProps ==
    IF "properties" \in DOMAIN grammar
      THEN grammar.properties
      ELSE {N_currentTarget, N_preventDefault, N_stopPropagation,
            N_stopImmediatePropagation}

C14_Case ==
    /\ cur.kind = "MemberExpression"
    /\ cur.name # NoName

\* The access is on the event parameter of the only function on the stack,
\* after an await in it.
C14_AfterAwait ==
    /\ C14_Case
    /\ Depth = 1
    /\ hasSuspended(1)
    /\ Declares(1, cur.name)
    /\ EventLike(cur.name)
    /\ cur.name \notin nonEventVariables

C14_CustomListReplacesDefaults ==
    /\ (C14_Case /\ Diagnostics(cur.site) > 0) => cur.prop \in EffectiveProps
    /\ (C14_AfterAwait /\ cur.prop \in EffectiveProps) => Diagnostics(cur.site) = 1

\* event.currentTarget after an await, with a configured list that leaves
\* currentTarget out.
C14_Witness ==
    /\ C14_AfterAwait
    /\ "properties" \in DOMAIN grammar
    /\ cur.prop = N_currentTarget
    /\ cur.prop \notin grammar.properties
    /\ Diagnostics(cur.site) = 0

(***************************************************************************)
(* C15.  A run starts with an empty function stack, no await flags, no     *)
(* promise-chain callbacks, no alias records, an empty Non-Event Set, no   *)
(* reported nodes and no diagnostics, whatever the run before it had       *)
(* reached when the new run was created.                                   *)
(***************************************************************************)
C15_Step ==
    cur'.kind = "Create" =>
        /\ functionStack' = << >>
        /\ functionsWithAwait' = << >>
        /\ functionsInPromise' = {}
        /\ functionParams' = << >>
        /\ parameterScopes' = << >>
        /\ eventAliases' = << >>
        /\ nonEventVariables' = {}
        /\ reportedNodesProps' = {}
        /\ reportedNodesRef' = {}
        /\ reportedCalls' = {}
        /\ reports' = << >>

C16_Case ==
    /\ cur.kind = "MemberExpression"
    /\ cur.name # NoName
    /\ cur.prop = N_currentTarget
    /\ Depth = 1
    /\ hasSuspended(1)
    /\ Declares(1, cur.name)
    /\ cur.name \notin nonEventVariables

C16_Suffix(name) ==
    /\ Len(name) >= 5
    /\ SubSeq(name, Len(name) - 4, Len(name)) = <<"E", "v", "e", "n", "t">>

C17_Case ==
    /\ cur.kind = "MemberExpression"
    /\ cur.name # NoName
    /\ cur.prop = N_currentTarget
    /\ Depth = 1
    /\ hasSuspended(1)
    /\ Declares(1, cur.name)
    /\ cur.name \notin nonEventVariables
    /\ "eventPatterns" \in DOMAIN grammar

\* The names of PatternNames that the configured lists match.
C17_Matched ==
    IF grammar.eventPatterns = <<N_evt, P_anyEvent, P__eventAny>>
      THEN {N_evt, N_mouseEvent, N__event, N__eventData}
    ELSE IF grammar.eventPatterns = <<P_anyEvAnyTAny>>
      THEN {N_event, N_evt, N__event, N__eventData, N_myevt, N_events}
    ELSE IF grammar.eventPatterns = <<P_eAnyT>>
      THEN {N_event, N_evt}
    ELSE {}

C17_AsStated == C17_Case => (Diagnostics(cur.site) = 1 <=> cur.name \in C17_Matched)

C17_ConfiguredPatterns ==
    C17_Case =>
        IF grammar.eventPatterns = << >>
          THEN Diagnostics(cur.site) = 1 <=> cur.name \in {N_event, N_e, N_mouseEvent}
          ELSE Diagnostics(cur.site) = 1 <=> cur.name \in C17_Matched

\* events.currentTarget after an await under the list [e*t]: the pattern is
\* anchored at the end of the name.
C17_Witness ==
    /\ C17_Case
    /\ grammar.eventPatterns = <<P_eAnyT>>
    /\ cur.name = N_events
    /\ Diagnostics(cur.site) = 0

(***************************************************************************)
(* C18.  A node checked for a name that is not alias-derived gets a        *)
(* diagnostic only if (a) a function on the stack has seen an await and    *)
(* the name is a parameter of it or of a function below it on the stack,   *)
(* or (b) a function on the stack is a promise-chain callback and no       *)
(* promise-chain callback on the stack has the name as a parameter.        *)
(* Parameters of functions already exited, and of functions above every    *)
(* function that has seen an await, do not count for (a).                  *)
(***************************************************************************)
C18_Case ==
    /\ Checked
    /\ cur.name # NoName
    /\ ~AliasDerived(cur.name)
    /\ Diagnostics(cur.site) >= 1

C18_Suspended ==
    \E i \in 1..Depth :
        /\ hasSuspended(i)
        /\ \E j \in 1..i : Declares(j, cur.name)

C18_Deferred ==
    /\ AnyDeferred
    /\ \A j \in 1..Depth : isDeferred(j) => ~Declares(j, cur.name)

C18_ReportedOnlyIf == C18_Case => (C18_Suspended \/ C18_Deferred)

(***************************************************************************)
(* C19.  When no function on the stack has seen an await, a use of a name  *)
(* that is a parameter of a function on the stack which is no              *)
(* promise-chain callback and lies above a promise-chain callback D gets   *)
(* no diagnostic, although no promise-chain callback has the name as a     *)
(* parameter.                                                              *)
(***************************************************************************)
C19_Case ==
    /\ UseSite
    /\ EventLike(cur.name)
    /\ ~AnySuspended
    /\ \E d \in 1..Depth :
          /\ isDeferred(d)
          /\ \E j \in (d + 1)..Depth : ~isDeferred(j) /\ Declares(j, cur.name)
    /\ \A j \in 1..Depth : isDeferred(j) => ~Declares(j, cur.name)

C19_NestedParameterShadows == C19_Case => Diagnostics(cur.site) = 0

(***************************************************************************)
(* C20.  The await flag of a function is not set when the function is      *)
(* entered, and a flag that is set stays set in every later step of the    *)
(* traversal: when functions nested in it are entered and left, and after  *)
(* the function itself has been popped.                                    *)
(***************************************************************************)
C20_Flagged(flags, f) == f \in DOMAIN flags /\ flags[f]

C20_Step ==
    /\ \A f \in DOMAIN functionsWithAwait :
          C20_Flagged(functionsWithAwait, f) => C20_Flagged(functionsWithAwait', f)
    /\ \A f \in DOMAIN functionsWithAwait' \ DOMAIN functionsWithAwait :
          ~functionsWithAwait'[f]
    /\ Len(functionStack') > Len(functionStack) =>
          ~C20_Flagged(functionsWithAwait', functionStack'[Len(functionStack')])
    /\ \A f \in DOMAIN functionsWithAwait' :
          (C20_Flagged(functionsWithAwait', f) /\ ~C20_Flagged(functionsWithAwait, f)) =>
              /\ cur'.kind = "AwaitExpression"
              /\ Depth > 0
              /\ f = Scope(Depth)

C20_SuspendedIsMonotonic == [][C20_Step]_vars

\* A function that had seen an await has been popped and keeps its flag; the
\* function that enclosed it has seen an await after that.
C20_Witness ==
    /\ cur.kind = "AwaitExpression"
    /\ Depth > 0
    /\ hasSuspended(Depth)
    /\ \E f \in DOMAIN functionsWithAwait :
          /\ functionsWithAwait[f]
          /\ ~Includes(functionStack, f)
          /\ f \in DOMAIN parentFunctions
          /\ parentFunctions[f] = Scope(Depth)

(***************************************************************************)
(* C21.  An await visited while T is on top of the stack sets the await    *)
(* flag of T and leaves the flag of every other function as it was, on the *)
(* stack or popped; and a use in a function that has seen no await itself, *)
(* with no flagged function and no promise-chain callback on the stack,    *)
(* gets no diagnostic although a function nested in it has seen an await.  *)
(***************************************************************************)
C21_Flag(flags, f) == f \in DOMAIN flags /\ flags[f]

C21_Step ==
    /\ cur'.kind = "AwaitExpression" =>
          /\ functionStack' = functionStack
          /\ \A f \in DOMAIN functionsWithAwait \cup DOMAIN functionsWithAwait' :
                (Depth = 0 \/ f # Scope(Depth)) =>
                    (C21_Flag(functionsWithAwait', f) <=> C21_Flag(functionsWithAwait, f))
          /\ Depth > 0 => C21_Flag(functionsWithAwait', Scope(Depth))
    /\ (UseSite' /\ ~AnySuspended' /\ ~AnyDeferred') => Diagnostics(cur.site)' = 0

C21_AwaitMarksTopOnly == [][C21_Step]_vars

\* event.currentTarget in o(event), which has seen no await, after the
\* nested function n with an await of its own has been left.
C21_Witness ==
    /\ cur.kind = "MemberExpression"
    /\ UseSite
    /\ Depth = 1
    /\ ~hasSuspended(1)
    /\ Declares(1, cur.name)
    /\ EventLike(cur.name)
    /\ \E f \in DOMAIN functionsWithAwait :
          /\ functionsWithAwait[f]
          /\ f \in DOMAIN parentFunctions
          /\ parentFunctions[f] = Scope(1)
    /\ Diagnostics(cur.site) = 0

(***************************************************************************)
(* C22.  An exit listener called for the node on top of the stack removes  *)
(* that entry and nothing else; called for any other node, or with the     *)
(* stack empty, it leaves the stack as it is; in both cases every other    *)
(* table of the tracker and the diagnostics are unchanged.                 *)
(***************************************************************************)
C22_Step ==
    cur'.kind = "FunctionExit" =>
        /\ IF Depth > 0 /\ cur'.node.id = Scope(Depth)
             THEN functionStack' = SubSeq(functionStack, 1, Depth - 1)
             ELSE functionStack' = functionStack
        /\ UNCHANGED <<functionsWithAwait, functionsInPromise, functionParams,
                       nonEventVariables, eventAliases, parameterScopes,
                       parentFunctions, reports>>

C22_ExitPopsTopOnly == [][C22_Step]_vars

\* The exit listener has run for a function that lies below the top of the
\* stack, and the function is still there.
C22_Witness ==
    /\ cur.kind = "FunctionExit"
    /\ Depth >= 2
    /\ \E i \in 1..(Depth - 1) : Scope(i) = cur.node.id

(***************************************************************************)
(* C23.  In a well-nested traversal the stack is, bottom to top, the chain *)
(* of the functions that have been entered and not yet left, async or      *)
(* not, each of them once; so it is empty when the traversal is back at    *)
(* the top level.                                                          *)
(***************************************************************************)
\* The functions whose body is still open, outermost first.
RECURSIVE C23_Open(_)
C23_Open(items) ==
    IF items = << >> THEN << >>
    ELSE LET rest == C23_Open(Tail(items))
         IN IF Head(items).t = "Body" /\ Head(items).node.id # 0
              THEN Append(rest, Head(items).node.id)
              ELSE rest

C23_StackIsOpenChain ==
    /\ functionStack = C23_Open(todo)
    /\ \A i, j \in 1..Depth : Scope(i) = Scope(j) => i = j
    /\ (head.t = "Body" /\ head.node.id = 0) => functionStack = << >>

\* An async function is open inside a function that is not async.
C23_Witness ==
    /\ Depth >= 2
    /\ functionStack = C23_Open(todo)
    /\ Scope(Depth) \in DOMAIN functionsWithAwait
    /\ Scope(Depth - 1) \notin DOMAIN functionsWithAwait

(***************************************************************************)
(* C24.  functionsInPromise changes only when a call is visited; a call    *)
(* whose callee is a member access with the property then, catch or        *)
(* finally adds every argument that is a function expression or an arrow   *)
(* function, and nothing else; any other call adds nothing.  So an open    *)
(* function is a promise-chain callback only if it is such an argument.    *)
(***************************************************************************)
\* The function-valued arguments of the call just visited, which are the
\* next nodes of the traversal.
C24_FunctionArgs ==
    {todo'[i].node.id : i \in
        {k \in 1..Len(todo') :
            /\ todo'[k].node.ptype = "CallExpression"
            /\ todo'[k].node.pid = cur'.node.id
            /\ todo'[k].node.role = "arg"
            /\ todo'[k].node.type \in {"FunctionExpression", "ArrowFunctionExpression"}}}

C24_Step ==
    /\ functionsInPromise' =
          IF /\ cur'.kind = "CallExpression"
             /\ cur'.site # Program
             /\ cur'.prop \in {N_then, N_catch, N_finally}
            THEN functionsInPromise \cup C24_FunctionArgs
            ELSE functionsInPromise
    /\ \A k \in 1..Len(todo') :
          (todo'[k].t = "Body" /\ todo'[k].node.id \in functionsInPromise') =>
              /\ todo'[k].node.role = "arg"
              /\ todo'[k].node.ptype = "CallExpression"
              /\ todo'[k].node.type \in {"FunctionExpression", "ArrowFunctionExpression"}

C24_DeferredIffPromiseArgument == [][C24_Step]_vars

\* Both arguments of then(a, b) are tagged, and the traversal is in the
\* second of them, after the first has been left.
C24_Witness ==
    /\ Depth = 1
    /\ isDeferred(1)
    /\ cur.kind = "Function"
    /\ cur.node.index = 1
    /\ \E f \in functionsInPromise : f # Scope(1) /\ f \in DOMAIN functionParams

(***************************************************************************)
(* C25.  A step changes neither the await flag nor the promise-chain tag   *)
(* of a function that is off the stack after it, once entered; the tag of  *)
(* a function does not change from its entry on; and a flag that a step    *)
(* changes is the flag of a function on the stack.                         *)
(***************************************************************************)
C25_Flag(flags, f) == f \in DOMAIN flags /\ flags[f]

C25_Step ==
    /\ \A f \in DOMAIN functionParams :
          /\ f \in functionsInPromise' <=> f \in functionsInPromise
          /\ ~Includes(functionStack', f) =>
                (C25_Flag(functionsWithAwait', f) <=> C25_Flag(functionsWithAwait, f))
    /\ \A f \in DOMAIN functionsWithAwait' :
          (C25_Flag(functionsWithAwait', f) /\ ~C25_Flag(functionsWithAwait, f)) =>
              Includes(functionStack, f)

C25_PoppedClassificationFixed == [][C25_Step]_vars

\* An await in a function after a promise-chain callback in it has been
\* left: the callback keeps its tag and has no flag.
C25_Witness ==
    /\ cur.kind = "AwaitExpression"
    /\ Depth > 0
    /\ hasSuspended(Depth)
    /\ \E f \in functionsInPromise :
          /\ f \in DOMAIN functionParams
          /\ ~Includes(functionStack, f)
          /\ ~C25_Flag(functionsWithAwait, f)

(***************************************************************************)
(* C26.  A declarator x = y with an identifier initializer records the     *)
(* alias x -> y when y is event-like and a parameter of a function on the  *)
(* stack, or when y has an alias record of its own, whatever the stack     *)
(* holds then; for any other identifier y the records are unchanged.  As   *)
(* stated, the claim has the alias recorded for every event-like y.        *)
(***************************************************************************)
C26_Case == cur'.kind = "VariableDeclarator" /\ cur'.init = "Identifier"

C26_Recorded ==
    [n \in DOMAIN eventAliases \cup {cur'.name} |->
        IF n = cur'.name THEN cur'.prop ELSE eventAliases[n]]

C26_StepAsStated ==
    C26_Case =>
        eventAliases' = IF EventLike(cur'.prop) \/ cur'.prop \in DOMAIN eventAliases
                          THEN C26_Recorded
                          ELSE eventAliases

C26_AsStated == [][C26_StepAsStated]_vars

C26_Step ==
    C26_Case =>
        eventAliases' = IF \/ EventLike(cur'.prop) /\ OnStackParam(cur'.prop)
                           \/ cur'.prop \in DOMAIN eventAliases
                          THEN C26_Recorded
                          ELSE eventAliases

C26_AliasRecorded == [][C26_Step]_vars

\* t = saved has been recorded at the top level: saved has an alias record
\* and is neither event-like nor a parameter.
C26_Witness ==
    /\ cur.kind = "VariableDeclarator"
    /\ cur.init = "Identifier"
    /\ Depth = 0
    /\ ~EventLike(cur.prop)
    /\ cur.prop \in DOMAIN eventAliases
    /\ cur.name \in DOMAIN eventAliases
    /\ eventAliases[cur.name] = cur.prop
    /\ cur.name # cur.prop

(***************************************************************************)
(* C27.  isDerivedFromEventParam(x) is true exactly when the alias records *)
(* lead from x, over any number of records, to a name that is event-like   *)
(* and a parameter of a function on the stack.  As stated, the claim has   *)
(* it true whenever the declarations x1 = event, x2 = x1, .., xk = x(k-1)  *)
(* were visited in that order and event is such a parameter now.           *)
(***************************************************************************)
C27_Names == {N_saved, N_t, N_data}

\* The records lead from `name` to an event-like parameter on the stack.
C27_RecordsLead(name) ==
    \E k \in 1..Cardinality(C27_Names) :
        \E p \in [1..k -> C27_Names] :
            /\ p[1] = name
            /\ \A i \in 1..k : p[i] \in DOMAIN eventAliases
            /\ \A i \in 1..(k - 1) : eventAliases[p[i]] = p[i + 1]
            /\ EventLike(eventAliases[p[k]])
            /\ OnStackParam(eventAliases[p[k]])

\* Declarations visited in this order, among the first `upto`, lead from
\* `name` to an event-like parameter on the stack.
RECURSIVE C27_DeclarationsLead(_, _)
C27_DeclarationsLead(name, upto) ==
    \E i \in 1..upto :
        /\ cur.aliased[i][1] = name
        /\ \/ EventLike(cur.aliased[i][2]) /\ OnStackParam(cur.aliased[i][2])
           \/ C27_DeclarationsLead(cur.aliased[i][2], i - 1)

C27_AsStated ==
    \A name \in C27_Names :
        /\ C27_DeclarationsLead(name, Len(cur.aliased)) => isDerivedFromEventParam(name)
        /\ ~C27_RecordsLead(name) => ~isDerivedFromEventParam(name)

C27_DerivationIsTransitive ==
    \A name \in C27_Names : isDerivedFromEventParam(name) <=> C27_RecordsLead(name)

\* data = t, t = saved, saved = event are recorded and event is a parameter
\* of a function on the stack: data is derived over three records.
C27_Witness ==
    /\ N_data \in DOMAIN eventAliases
    /\ eventAliases[N_data] = N_t
    /\ N_t \in DOMAIN eventAliases
    /\ eventAliases[N_t] = N_saved
    /\ N_saved \in DOMAIN eventAliases
    /\ eventAliases[N_saved] = N_event
    /\ OnStackParam(N_event)
    /\ isDerivedFromEventParam(N_data)

(***************************************************************************)
(* C28.  Whatever the alias records hold, cycles included, the loop of     *)
(* isDerivedFromEventParam ends after at most one iteration per name with  *)
(* a record; and a name whose records run in a cycle without leading to an *)
(* event-like parameter of a function on the stack is not derived.         *)
(***************************************************************************)
\* The records never lead out of the names that have a record.
C28_Cyclic(name) ==
    \E p \in [1..(Cardinality(C27_Names) + 1) -> C27_Names] :
        /\ p[1] = name
        /\ \A i \in DOMAIN p : p[i] \in DOMAIN eventAliases
        /\ \A i \in 1..Cardinality(C27_Names) : eventAliases[p[i]] = p[i + 1]

C28_DerivationTerminates ==
    \A name \in C27_Names :
        /\ DerivedIterations(name, {}) <= Cardinality(DOMAIN eventAliases)
        /\ (C28_Cyclic(name) /\ ~C27_RecordsLead(name)) => ~isDerivedFromEventParam(name)

\* saved -> t and t -> saved: the loop from saved ends after two iterations
\* and saved is not derived, with event a parameter on the stack.
C28_Witness ==
    /\ N_saved \in DOMAIN eventAliases
    /\ eventAliases[N_saved] = N_t
    /\ N_t \in DOMAIN eventAliases
    /\ eventAliases[N_t] = N_saved
    /\ OnStackParam(N_event)
    /\ DerivedIterations(N_saved, {}) = 2
    /\ ~isDerivedFromEventParam(N_saved)

(***************************************************************************)
(* C29.  A step emits at most one diagnostic, and it emits one exactly     *)
(* when the listener takes the call of isInAsyncContext as true and puts   *)
(* the node into its reported set; a use of an event-like name outside the *)
(* Non-Event Set for which both branches hold (the outermost function that *)
(* has seen an await, or one below it, declares the name, and a            *)
(* promise-chain callback is on the stack and none declares it) has        *)
(* exactly one diagnostic.                                                 *)
(***************************************************************************)
C29_Both ==
    /\ \E i \in 1..Depth :
          /\ hasSuspended(i)
          /\ \A j \in 1..(i - 1) : ~hasSuspended(j)
          /\ \E j \in 1..i : Declares(j, cur.name)
    /\ AnyDeferred
    /\ \A j \in 1..Depth : isDeferred(j) => ~Declares(j, cur.name)

C29_Case ==
    /\ UseSite
    /\ EventLike(cur.name)
    /\ cur.name \notin nonEventVariables
    /\ C29_Both

C29_Step ==
    /\ Len(reports') \in {Len(reports), Len(reports) + 1}
    /\ SubSeq(reports', 1, Len(reports)) = reports
    /\ Len(reports') > Len(reports) <=>
          (reportedNodesProps' \cup reportedNodesRef') # (reportedNodesProps \cup reportedNodesRef)
    /\ C29_Case' => Diagnostics(cur.site)' = 1

C29_AtMostOneDiagnostic == [][C29_Step]_vars

\* event.currentTarget in a promise-chain callback of h(event), after an
\* await in h.
C29_Witness ==
    /\ C29_Case
    /\ Diagnostics(cur.site) = 1
    /\ ~hasSuspended(Depth)
    /\ isDeferred(Depth)

(***************************************************************************)
(* C30.  A node has a diagnostic only if, when it was checked, a function  *)
(* on the stack had seen an await or was a promise-chain callback; so      *)
(* nothing is reported with the stack empty, nor in plain functions nested *)
(* in a handler that has seen no await; and an await visited with the      *)
(* stack empty changes no table of the tracker.                            *)
(***************************************************************************)
C30_Step ==
    /\ (Checked' /\ Diagnostics(cur.site)' >= 1) => (AnySuspended' \/ AnyDeferred')
    /\ (cur'.kind = "AwaitExpression" /\ Depth = 0) =>
          UNCHANGED <<functionsWithAwait, functionStack, functionsInPromise,
                      functionParams, nonEventVariables, eventAliases,
                      parameterScopes, parentFunctions, reports>>

C30_ReportedOnlyInAsyncContext == [][C30_Step]_vars

\* event is used in a function that is not async, nested in a handler with
\* the parameter event that has seen no await.
C30_Witness ==
    /\ UseSite
    /\ EventLike(cur.name)
    /\ cur.name \notin nonEventVariables
    /\ Depth >= 2
    /\ Declares(1, cur.name)
    /\ ~AnySuspended
    /\ ~AnyDeferred
    /\ Scope(1) \in DOMAIN functionsWithAwait
    /\ Scope(Depth) \notin DOMAIN functionsWithAwait
    /\ Diagnostics(cur.site) = 0

(***************************************************************************)
(* C31.  The parameter set a function gets on entry is exactly the set of  *)
(* the names of its parameters that are plain identifiers, and the set of  *)
(* a function entered before is never changed; patterns ({event},          *)
(* ...event, event = 0) contribute no name, so a checked identifier whose  *)
(* name no function on the stack declares by a plain parameter, and that   *)
(* is no alias, has no diagnostic.                                         *)
(***************************************************************************)
\* The names of the plain identifier parameters of the function just entered,
\* read off the parameter nodes the traversal is about to visit.
C31_PlainParameters(items, f) ==
    {items[k].name : k \in {j \in 1..Len(items) :
                               /\ items[j].t = "Id"
                               /\ items[j].node.pid = f
                               /\ items[j].node.role = "param"}}

C31_Step ==
    /\ cur'.kind = "Function" =>
          /\ cur'.node.id \in DOMAIN functionParams'
          /\ functionParams'[cur'.node.id] = C31_PlainParameters(todo', cur'.node.id)
    /\ \A f \in DOMAIN functionParams :
          /\ f \in DOMAIN functionParams'
          /\ functionParams'[f] = functionParams[f]
    /\ (/\ Checked'
        /\ ~OnStackParam(cur.name)'
        /\ cur'.name \notin DOMAIN eventAliases')
          => Diagnostics(cur.site)' = 0

C31_ParameterNamesFixed == [][C31_Step]_vars

\* event.currentTarget after an await in a handler (e, ...event), visited
\* after a handler with the plain parameter event has been left.
C31_Witness ==
    /\ PropsUse
    /\ cur.name = N_event
    /\ Depth > 0
    /\ hasSuspended(Depth)
    /\ Declares(Depth, N_e)
    /\ ~OnStackParam(N_event)
    /\ N_event \in DOMAIN parameterScopes
    /\ Diagnostics(cur.site) = 0

(***************************************************************************)
(* C32.  The diagnostics only grow: every step keeps the diagnostics       *)
(* emitted so far, in their order, and the diagnostics it adds are for the *)
(* node it has just checked.  So an await, a declaration, a call without a *)
(* member callee, a function entry or exit adds and removes nothing, and   *)
(* the number of diagnostics of any node other than the one just checked   *)
(* stays what it was.                                                      *)
(***************************************************************************)
C32_Step ==
    /\ Len(reports') >= Len(reports)
    /\ SubSeq(reports', 1, Len(reports)) = reports
    /\ \A k \in (Len(reports) + 1)..Len(reports') :
          /\ Checked'
          /\ reports'[k].node = cur'.site
    /\ cur'.kind \in {"AwaitExpression", "VariableDeclarator", "Function", "FunctionExit"}
          => reports' = reports

C32_DecisionIsFinal == [][C32_Step]_vars

\* event = {..} is declared after a use of event has been reported: the
\* diagnostic stays.
C32_Witness ==
    /\ cur.kind = "VariableDeclarator"
    /\ cur.name = N_event
    /\ N_event \in nonEventVariables
    /\ eventAliases = << >>
    /\ Len(reports) >= 1

(***************************************************************************)
(* C33.  A step that checks a member access or an identifier, reported or  *)
(* not, leaves every table of the tracker as it was: the stack, the await  *)
(* flags, the promise-chain callbacks, the parameter sets, the parameter   *)
(* scopes, the alias records and the Non-Event Set.  The check of a member *)
(* callee at its call leaves them as the base listener of the call does:   *)
(* only functionsInPromise may have grown, by nodes that are not on the    *)
(* stack.                                                                  *)
(***************************************************************************)
C33_Step ==
    /\ cur'.kind \in {"MemberExpression", "Identifier"} =>
          UNCHANGED <<functionsWithAwait, functionStack, functionsInPromise,
                      functionParams, nonEventVariables, eventAliases,
                      parameterScopes, parentFunctions>>
    /\ cur'.kind = "CallExpression" =>
          /\ UNCHANGED <<functionsWithAwait, functionStack, functionParams,
                         nonEventVariables, eventAliases, parameterScopes,
                         parentFunctions>>
          /\ functionsInPromise \subseteq functionsInPromise'
          /\ \A i \in 1..Depth : isDeferred(i)' = isDeferred(i)

C33_QueriesArePure == [][C33_Step]_vars

\* saved.currentTarget has been checked and reported after an await, with
\* saved an alias of the parameter event.
C33_Witness ==
    /\ PropsUse
    /\ cur.kind = "MemberExpression"
    /\ cur.name = N_saved
    /\ AliasDerived(N_saved)
    /\ AnySuspended
    /\ Diagnostics(cur.site) = 1

(***************************************************************************)
(* C34.  An alias record is never removed: no step takes a name out of the *)
(* alias records, and the record of a name changes only at a declarator of *)
(* that name with an identifier initializer (not at an exit, not at a      *)
(* declarator with another initializer).  So whenever the record of a name *)
(* leads to an event-like name that a function on the stack declares, the  *)
(* name is derived, in whichever function the record was made, and its use *)
(* while a function on the stack has seen an await has one diagnostic      *)
(* unless the name is in the Non-Event Set.                                *)
(***************************************************************************)
C34_Kept ==
    \A n \in DOMAIN eventAliases :
        /\ n \in DOMAIN eventAliases'
        /\ eventAliases'[n] # eventAliases[n] =>
              /\ cur'.kind = "VariableDeclarator"
              /\ cur'.name = n
              /\ cur'.init = "Identifier"

C34_Leads(n) ==
    /\ n \in DOMAIN eventAliases
    /\ EventLike(eventAliases[n])
    /\ OnStackParam(eventAliases[n])

C34_Derived ==
    /\ \A n \in DOMAIN eventAliases : C34_Leads(n) => isDerivedFromEventParam(n)
    /\ (/\ UseSite
        /\ C34_Leads(cur.name)
        /\ cur.name \notin nonEventVariables
        /\ AnySuspended)
          => Diagnostics(cur.site) = 1

C34_Step == C34_Kept /\ C34_Derived'

C34_AliasesNeverRemoved == [][C34_Step]_vars

\* saved.currentTarget is the first access of the handler B(event), right
\* after its await; the record saved -> event was made in a handler that has
\* been left.
C34_Witness ==
    /\ PropsUse
    /\ cur.name = N_saved
    /\ Depth = 1
    /\ Declares(1, N_event)
    /\ hasSuspended(1)
    /\ cur.node.id = Scope(1) + 3
    /\ N_saved \in DOMAIN eventAliases
    /\ eventAliases[N_saved] = N_event
    /\ Diagnostics(cur.site) = 1

(***************************************************************************)
(* C35.  The operand of the first await of a function S, when it is a      *)
(* disallowed access p.x on an event-like identifier parameter p of S, is  *)
(* visited with S already flagged by that await and has exactly one        *)
(* diagnostic.  The await taken is the first node of the body of S.        *)
(***************************************************************************)
C35_Case ==
    /\ PropsUse
    /\ cur.kind = "MemberExpression"
    /\ cur.node.ptype = "AwaitExpression"
    /\ Depth > 0
    /\ Declares(Depth, cur.name)
    /\ EventLike(cur.name)
    /\ cur.node.id = Scope(Depth) + Cardinality(functionParams[Scope(Depth)]) + 2

C35_OperandUseReported ==
    C35_Case =>
        /\ hasSuspended(Depth)
        /\ Diagnostics(cur.site) = 1

(***************************************************************************)
(* C36.  A function that is on the stack although the traversal has left   *)
(* it (its exit was not delivered) stays where it is: every later step     *)
(* keeps the stack up to and including it, so the exits of the functions   *)
(* below it pop nothing and the stack is never empty again.  It goes on    *)
(* deciding the checks: a use of an event-like name outside the Non-Event  *)
(* Set has one diagnostic when such a function is the outermost one that   *)
(* has seen an await and declares the name, and when such a function is a  *)
(* promise-chain callback, some function on the stack declares the name    *)
(* and no promise-chain callback on the stack does.                        *)
(***************************************************************************)
\* The i-th function of the stack has been left by the traversal.
C36_Stale(i) == ~Includes(C23_Open(todo), Scope(i))

C36_Stays ==
    \A i \in 1..Depth :
        C36_Stale(i) =>
            /\ Len(functionStack') >= i
            /\ SubSeq(functionStack', 1, i) = SubSeq(functionStack, 1, i)
            /\ C36_Stale(i)'

C36_Decides ==
    (/\ UseSite
     /\ EventLike(cur.name)
     /\ cur.name \notin nonEventVariables
     /\ \/ \E i \in 1..Depth :
              /\ C36_Stale(i)
              /\ hasSuspended(i)
              /\ Declares(i, cur.name)
              /\ \A j \in 1..(i - 1) : ~hasSuspended(j)
        \/ /\ \E i \in 1..Depth : C36_Stale(i) /\ isDeferred(i)
           /\ OnStackParam(cur.name)
           /\ \A j \in 1..Depth : isDeferred(j) => ~Declares(j, cur.name))
      => Diagnostics(cur.site) = 1

C36_Step == C36_Stays /\ C36_Decides'

C36_StaleScopeStays == [][C36_Step]_vars

\* event.currentTarget at the top level of the program is reported: the
\* stack still holds a handler with the parameter event that has seen an
\* await and, below it, the function that encloses it.
C36_Witness ==
    /\ UseSite
    /\ C23_Open(todo) = << >>
    /\ Depth = 2
    /\ hasSuspended(2)
    /\ Declares(2, cur.name)
    /\ ~hasSuspended(1)
    /\ cur.kind = "MemberExpression"
    /\ Diagnostics(cur.site) = 1

(***************************************************************************)
(* C37.  parameterScopes and functionParams agree: a function is listed    *)
(* under a name in parameterScopes iff it has been entered and the name is *)
(* in its parameter set.  Hence isParameterInScope holds for a name iff a  *)
(* function on the stack has the name in its parameter set; a function     *)
(* that has been left does not make it hold.                               *)
(***************************************************************************)
C37_Names ==
    DOMAIN parameterScopes \cup UNION {functionParams[f] : f \in DOMAIN functionParams}
        \cup {N_event, N_e, N_saved}

C37_Listed(n, f) ==
    n \in DOMAIN parameterScopes /\ \E k \in 1..Len(parameterScopes[n]) : parameterScopes[n][k] = f

C37_TablesAgree ==
    /\ \A n \in C37_Names :
          /\ \A f \in DOMAIN functionParams :
                C37_Listed(n, f) <=> n \in functionParams[f]
          /\ \A f \in 1..nextId : C37_Listed(n, f) => f \in DOMAIN functionParams
    /\ \A n \in C37_Names : isParameterInScope(n) <=> OnStackParam(n)

\* event.currentTarget is checked in a handler (e, ...event) after a handler
\* with the plain parameter event has been left: event is listed in
\* parameterScopes and is no parameter in scope.
C37_Witness ==
    /\ Checked
    /\ cur.name = N_event
    /\ Depth > 0
    /\ C37_Listed(N_event, 1)
    /\ ~Includes(functionStack, 1)
    /\ Declares(Depth, N_e)
    /\ isParameterInScope(N_e)
    /\ ~isParameterInScope(N_event)

====
